---- MODULE Spec2Model ----
(***************************************************************************)
(* WordCounter: the tokenizer (get_input), the token buffer and token      *)
(* list, the string pool, the word hash table and the driver (main).       *)
(* Characters are their ASCII codes, C arrays are functions on 0..n-1,     *)
(* and a pointer into the string pool is an integer address.               *)
(***************************************************************************)
EXTENDS Integers, Sequences, FiniteSets, TLC

VARIABLES text, pos, state, wbuf, vec, pc, i, rst, whtab, nAdded, report,
          stored, heap

vars == <<text, pos, state, wbuf, vec, pc, i, rst, whtab, nAdded, report,
          stored, heap>>

(***************************************************************************)
(* Bounds of the model.                                                    *)
(***************************************************************************)
\* longest input of the exhaustive tokenizer inputs
MaxInputLen == 4
\* most raw words in an input text of the whole program
MaxWords == 3
\* number of distinct addresses realloc may return for the string pool
NumBases == 2
\* most tokens in a token list handed to the engine on its own
MaxEngineWords == 3
\* the engine on its own is not expanded beyond these capacities
MaxCapacity == 8
MaxPoolCapacity == 24
\* most tokens in a token list handed to the loop of main on its own
MaxLoopWords == 2
\* largest block asked of the pool on its own, and most blocks it hands out
MaxBlock == 3
MaxBlocks == 3
\* longest content of a token buffer used on its own, and most tokens pushed
\* to a token list used on its own
MaxBufLen == 2
MaxListLen == 2
\* largest number of tokens the initial size of the table is computed for
MaxTokenCount == 16

(***************************************************************************)
(* Characters.                                                             *)
(***************************************************************************)
Ascii ==
    (" " :> 32) @@ ("%" :> 37) @@ ("'" :> 39) @@ ("," :> 44) @@
    ("-" :> 45) @@ ("." :> 46) @@ ("@" :> 64) @@ ("0" :> 48) @@
    ("1" :> 49) @@ ("2" :> 50) @@ ("3" :> 51) @@ ("4" :> 52) @@
    ("5" :> 53) @@ ("6" :> 54) @@ ("7" :> 55) @@ ("8" :> 56) @@
    ("9" :> 57) @@ ("A" :> 65) @@ ("B" :> 66) @@ ("C" :> 67) @@
    ("D" :> 68) @@ ("E" :> 69) @@ ("F" :> 70) @@ ("G" :> 71) @@
    ("H" :> 72) @@ ("I" :> 73) @@ ("J" :> 74) @@ ("K" :> 75) @@
    ("L" :> 76) @@ ("M" :> 77) @@ ("N" :> 78) @@ ("O" :> 79) @@
    ("P" :> 80) @@ ("Q" :> 81) @@ ("R" :> 82) @@ ("S" :> 83) @@
    ("T" :> 84) @@ ("U" :> 85) @@ ("V" :> 86) @@ ("W" :> 87) @@
    ("X" :> 88) @@ ("Y" :> 89) @@ ("Z" :> 90) @@ ("a" :> 97) @@
    ("b" :> 98) @@ ("c" :> 99) @@ ("d" :> 100) @@ ("e" :> 101) @@
    ("f" :> 102) @@ ("g" :> 103) @@ ("h" :> 104) @@ ("i" :> 105) @@
    ("j" :> 106) @@ ("k" :> 107) @@ ("l" :> 108) @@ ("m" :> 109) @@
    ("n" :> 110) @@ ("o" :> 111) @@ ("p" :> 112) @@ ("q" :> 113) @@
    ("r" :> 114) @@ ("s" :> 115) @@ ("t" :> 116) @@ ("u" :> 117) @@
    ("v" :> 118) @@ ("w" :> 119) @@ ("x" :> 120) @@ ("y" :> 121) @@
    ("z" :> 122)

\* the character codes of a text written as a tuple of one-character strings
T(s) == [k \in 1..Len(s) |-> Ascii[s[k]]]

(***************************************************************************)
(* Return statuses (RetStatus).                                            *)
(***************************************************************************)
SUCCESS == "SUCCESS"
DATA_STRUCT_FULL == "DATA_STRUCT_FULL"
GEN_FAIL == "GEN_FAIL"

(***************************************************************************)
(* C memory: calloc gives zeroes, realloc keeps the old prefix and leaves  *)
(* the rest indeterminate, free leaves nothing to read.                    *)
(***************************************************************************)
Indeterminate == -1

Calloc(n) == [k \in 0..(n - 1) |-> 0]

Realloc(arr, oldLen, newLen) ==
    [k \in 0..(newLen - 1) |-> IF k < oldLen THEN arr[k] ELSE Indeterminate]

\* strncpy(dst, src, cnt): the cnt bytes written to dst, src read from index 0:
\* the bytes of src up to its terminator, then zero padding
RECURSIVE strncpy(_, _, _)
strncpy(src, cnt, k) ==
    IF k >= cnt THEN << >>
    ELSE IF src[k] = 0 THEN [j \in 1..(cnt - k) |-> 0]
    ELSE << src[k] >> \o strncpy(src, cnt, k + 1)

\* the C string stored in a character array: the bytes before the terminator
RECURSIVE CStringFrom(_, _, _)
CStringFrom(letters, k, len) ==
    IF k >= len THEN << Indeterminate >>
    ELSE IF letters[k] = 0 THEN << >>
    ELSE << letters[k] >> \o CStringFrom(letters, k + 1, len)

(***************************************************************************)
(* WordBuffer (Token Buffer).                                              *)
(***************************************************************************)
NullBuffer == [letters |-> << >>, curPosition |-> 0, capacity |-> 0]

WordBuffer_init(initLen, ok) ==
    IF initLen < 2 \/ ~ok
    THEN [rst |-> GEN_FAIL, wbuf |-> NullBuffer]
    ELSE [rst |-> SUCCESS,
          wbuf |-> [letters |-> Calloc(initLen), curPosition |-> 0,
                    capacity |-> initLen]]

WordBuffer_create(initLen) == WordBuffer_init(initLen, TRUE).wbuf

\* the terminator is not written after the new character
WordBuffer_push_char_NoTerminator(b, newChar, ok) ==
    LET grow == b.curPosition >= b.capacity - 1
        len  == b.capacity * 2
        g    == IF grow
                THEN [b EXCEPT !.letters = Realloc(b.letters, b.capacity, len),
                               !.capacity = len]
                ELSE b
    IN  IF grow /\ ~ok
        THEN [rst |-> GEN_FAIL, wbuf |-> b]
        ELSE [rst |-> SUCCESS,
              wbuf |-> [g EXCEPT
                  !.letters = [g.letters EXCEPT ![g.curPosition] = newChar],
                  !.curPosition = g.curPosition + 1]]

WordBuffer_push_char(b, newChar, ok) ==
    LET grow == b.curPosition >= b.capacity - 1
        len  == b.capacity * 2
        g    == IF grow
                THEN [b EXCEPT !.letters = Realloc(b.letters, b.capacity, len),
                               !.capacity = len]
                ELSE b
    IN  IF grow /\ ~ok
        THEN [rst |-> GEN_FAIL, wbuf |-> b]
        ELSE [rst |-> SUCCESS,
              wbuf |-> [g EXCEPT
                  !.letters = [g.letters EXCEPT ![g.curPosition] = newChar,
                                                ![g.curPosition + 1] = 0],
                  !.curPosition = g.curPosition + 1]]

\* backspace that removes nothing
WordBuffer_backspace_None(b) == b

WordBuffer_backspace(b) ==
    IF b.curPosition >= 1
    THEN [b EXCEPT !.curPosition = b.curPosition - 1,
                   !.letters = [b.letters EXCEPT ![b.curPosition - 1] = 0]]
    ELSE b

WordBuffer_clear(b) ==
    [b EXCEPT !.curPosition = 0, !.letters = [b.letters EXCEPT ![0] = 0]]

\* the word a buffer holds, read as a C string
Word(b) == CStringFrom(b.letters, 0, b.capacity)

(***************************************************************************)
(* WordBufferVector (Token List).                                          *)
(***************************************************************************)
INITIAL_WORD_VECTOR_LENGTH == 128

WordBufferVector_create(initLen) ==
    [buffers |-> [k \in 0..(initLen - 1) |-> NullBuffer],
     curPosition |-> 0, capacity |-> initLen]

\* the slot is given the capacity of the buffer pushed
WordBufferVector_push_OverAllocated(v, b, okGrow, okInit) ==
    LET grow   == v.curPosition >= v.capacity - 1
        newLen == v.capacity * 2
        g      == IF grow
                  THEN [v EXCEPT
                          !.buffers = [k \in 0..(newLen - 1) |->
                                         IF k < v.capacity THEN v.buffers[k]
                                         ELSE NullBuffer],
                          !.capacity = newLen]
                  ELSE v
        init   == WordBuffer_init(b.curPosition + 1, okInit)
        copy   == strncpy(b.letters, b.capacity, 0)
        slot   == [letters |-> [k \in 0..(b.capacity - 1) |-> copy[k + 1]],
                   curPosition |-> b.curPosition,
                   capacity |-> b.capacity]
    IN  IF grow /\ ~okGrow THEN [rst |-> GEN_FAIL, vec |-> v]
        ELSE IF init.rst # SUCCESS THEN [rst |-> GEN_FAIL, vec |-> g]
        ELSE [rst |-> SUCCESS,
              vec |-> [g EXCEPT !.buffers[g.curPosition] = slot,
                                !.curPosition = g.curPosition + 1]]

\* okGrow: the realloc of the array succeeds; okInit: the calloc of the
\* new slot's string succeeds
WordBufferVector_push(v, b, okGrow, okInit) ==
    LET grow   == v.curPosition >= v.capacity - 1
        newLen == v.capacity * 2
        g      == IF grow
                  THEN [v EXCEPT
                          !.buffers = [k \in 0..(newLen - 1) |->
                                         IF k < v.capacity THEN v.buffers[k]
                                         ELSE NullBuffer],
                          !.capacity = newLen]
                  ELSE v
        init   == WordBuffer_init(b.curPosition + 1, okInit)
        copy   == strncpy(b.letters, b.curPosition + 1, 0)
        slot   == [letters |-> [k \in 0..b.curPosition |-> copy[k + 1]],
                   curPosition |-> b.curPosition,
                   capacity |-> b.curPosition + 1]
    IN  IF grow /\ ~okGrow THEN [rst |-> GEN_FAIL, vec |-> v]
        ELSE IF init.rst # SUCCESS THEN [rst |-> GEN_FAIL, vec |-> g]
        ELSE [rst |-> SUCCESS,
              vec |-> [g EXCEPT !.buffers[g.curPosition] = slot,
                                !.curPosition = g.curPosition + 1]]

WordBufferVector_at(v, index) == v.buffers[index]

WordBufferVector_get_size(v) == v.curPosition

\* the token list as the sequence of its words
Tokens(v) == [k \in 1..v.curPosition |-> Word(v.buffers[k - 1])]

(***************************************************************************)
(* Character classes (wordcount.c).                                        *)
(***************************************************************************)
\* no case folding
to_lowercase_Identity(let) == let

\* let | 0x20
to_lowercase(let) == IF (let \div 32) % 2 = 1 THEN let ELSE let + 32

is_letter(ch) ==
    LET lowch == to_lowercase(ch) IN lowch >= 97 /\ lowch <= 122

is_number(ch) == ch >= 48 /\ ch <= 57

inWrdSymbols == << 45, 39, 37, 44, 46, 64 >>

\* the space counts as an in-word symbol
is_inword_symbol_Space(ch) == ch = 32 \/ \E k \in 1..Len(inWrdSymbols) : ch = inWrdSymbols[k]

is_inword_symbol(ch) == \E k \in 1..Len(inWrdSymbols) : ch = inWrdSymbols[k]

LETTER == "LETTER"
NUMBER == "NUMBER"
IN_WORD_SYMBOL == "IN_WORD_SYMBOL"
OTHER_SYMBOL == "OTHER_SYMBOL"

get_char_type(ch) ==
    IF is_letter(ch) THEN LETTER
    ELSE IF is_number(ch) THEN NUMBER
    ELSE IF is_inword_symbol(ch) THEN IN_WORD_SYMBOL
    ELSE OTHER_SYMBOL

BETWEEN_WORDS == "BETWEEN_WORDS"
IN_WORD_AFTER_ALPHARITH == "IN_WORD_AFTER_ALPHARITH"
IN_WORD_AFTER_SYMBOL == "IN_WORD_AFTER_SYMBOL"

INITIAL_WORD_BUFFER_LENGTH == 16

(***************************************************************************)
(* get_input: one iteration of the reading loop, and the switch after EOF. *)
(* Each returns the status (SUCCESS: go on), the next state, the buffer    *)
(* and the token list.                                                     *)
(***************************************************************************)
\* a character is appended to the buffer and the state becomes nxt
Appended(p, nxt, v) ==
    IF p.rst = SUCCESS
    THEN [rst |-> SUCCESS, state |-> nxt, wbuf |-> p.wbuf, vec |-> v]
    ELSE [rst |-> GEN_FAIL, state |-> nxt, wbuf |-> NullBuffer, vec |-> v]

\* the buffer is pushed to the token list and not cleared
Flushed_NoClear(p, b, nxt) ==
    IF p.rst = SUCCESS
    THEN [rst |-> SUCCESS, state |-> nxt, wbuf |-> b, vec |-> p.vec]
    ELSE [rst |-> GEN_FAIL, state |-> nxt, wbuf |-> NullBuffer, vec |-> p.vec]

\* the buffer b is pushed to the token list, then cleared
Flushed(p, b, nxt) ==
    IF p.rst = SUCCESS
    THEN [rst |-> SUCCESS, state |-> nxt, wbuf |-> WordBuffer_clear(b),
          vec |-> p.vec]
    ELSE [rst |-> GEN_FAIL, state |-> nxt, wbuf |-> NullBuffer, vec |-> p.vec]

\* between words, an in-word symbol starts a word
BetweenWords_SymbolStarts(b, v, newChar, inpType, okBuf) ==
    CASE inpType = LETTER ->
           Appended(WordBuffer_push_char(b, to_lowercase(newChar), okBuf),
                    IN_WORD_AFTER_ALPHARITH, v)
      [] inpType \in { NUMBER, IN_WORD_SYMBOL } ->
           Appended(WordBuffer_push_char(b, newChar, okBuf),
                    IN_WORD_AFTER_ALPHARITH, v)
      [] OTHER ->
           [rst |-> SUCCESS, state |-> BETWEEN_WORDS, wbuf |-> b, vec |-> v]

BetweenWords(b, v, newChar, inpType, okBuf) ==
    CASE inpType = LETTER ->
           Appended(WordBuffer_push_char(b, to_lowercase(newChar), okBuf),
                    IN_WORD_AFTER_ALPHARITH, v)
      [] inpType = NUMBER ->
           Appended(WordBuffer_push_char(b, newChar, okBuf),
                    IN_WORD_AFTER_ALPHARITH, v)
      [] OTHER ->
           [rst |-> SUCCESS, state |-> BETWEEN_WORDS, wbuf |-> b, vec |-> v]

\* after an alphanumeric, an in-word symbol ends the word like any other
\* symbol
InWordAfterAlpharith_SymbolEnds(b, v, newChar, inpType, okBuf, okGrow, okInit) ==
    CASE inpType = LETTER ->
           Appended(WordBuffer_push_char(b, to_lowercase(newChar), okBuf),
                    IN_WORD_AFTER_ALPHARITH, v)
      [] inpType = NUMBER ->
           Appended(WordBuffer_push_char(b, newChar, okBuf),
                    IN_WORD_AFTER_ALPHARITH, v)
      [] OTHER ->
           Flushed(WordBufferVector_push(v, b, okGrow, okInit), b,
                   BETWEEN_WORDS)

InWordAfterAlpharith(b, v, newChar, inpType, okBuf, okGrow, okInit) ==
    CASE inpType = LETTER ->
           Appended(WordBuffer_push_char(b, to_lowercase(newChar), okBuf),
                    IN_WORD_AFTER_ALPHARITH, v)
      [] inpType = NUMBER ->
           Appended(WordBuffer_push_char(b, newChar, okBuf),
                    IN_WORD_AFTER_ALPHARITH, v)
      [] inpType = IN_WORD_SYMBOL ->
           Appended(WordBuffer_push_char(b, newChar, okBuf),
                    IN_WORD_AFTER_SYMBOL, v)
      [] inpType = OTHER_SYMBOL ->
           Flushed(WordBufferVector_push(v, b, okGrow, okInit), b,
                   BETWEEN_WORDS)

\* after an in-word symbol, a second in-word symbol is kept in the word
InWordAfterSymbol_KeepSymbol(b, v, newChar, inpType, okBuf, okGrow, okInit) ==
    CASE inpType = LETTER ->
           Appended(WordBuffer_push_char(b, to_lowercase(newChar), okBuf),
                    IN_WORD_AFTER_ALPHARITH, v)
      [] inpType = NUMBER ->
           Appended(WordBuffer_push_char(b, newChar, okBuf),
                    IN_WORD_AFTER_ALPHARITH, v)
      [] inpType = IN_WORD_SYMBOL ->
           Appended(WordBuffer_push_char(b, newChar, okBuf),
                    IN_WORD_AFTER_SYMBOL, v)
      [] OTHER ->
           LET d == WordBuffer_backspace(b)
           IN  Flushed(WordBufferVector_push(v, d, okGrow, okInit), d,
                       BETWEEN_WORDS)

InWordAfterSymbol(b, v, newChar, inpType, okBuf, okGrow, okInit) ==
    CASE inpType = LETTER ->
           Appended(WordBuffer_push_char(b, to_lowercase(newChar), okBuf),
                    IN_WORD_AFTER_ALPHARITH, v)
      [] inpType = NUMBER ->
           Appended(WordBuffer_push_char(b, newChar, okBuf),
                    IN_WORD_AFTER_ALPHARITH, v)
      [] OTHER ->
           LET d == WordBuffer_backspace(b)
           IN  Flushed(WordBufferVector_push(v, d, okGrow, okInit), d,
                       BETWEEN_WORDS)

get_input_char(st, b, v, newChar, okBuf, okGrow, okInit) ==
    LET inpType == get_char_type(newChar)
    IN  CASE st = BETWEEN_WORDS ->
               BetweenWords(b, v, newChar, inpType, okBuf)
          [] st = IN_WORD_AFTER_ALPHARITH ->
               InWordAfterAlpharith(b, v, newChar, inpType, okBuf, okGrow,
                                    okInit)
          [] st = IN_WORD_AFTER_SYMBOL ->
               InWordAfterSymbol(b, v, newChar, inpType, okBuf, okGrow,
                                 okInit)

\* at the end of the stream the pending word is dropped
get_input_eof_NoFlush(st, b, v, okGrow, okInit) ==
    CASE st = IN_WORD_AFTER_SYMBOL ->
           LET d == WordBuffer_backspace(b)
               p == WordBufferVector_push(v, d, okGrow, okInit)
           IN  [rst |-> p.rst, state |-> st, wbuf |-> NullBuffer,
                vec |-> p.vec]
      [] OTHER ->
           [rst |-> SUCCESS, state |-> st, wbuf |-> NullBuffer, vec |-> v]

get_input_eof(st, b, v, okGrow, okInit) ==
    CASE st = IN_WORD_AFTER_ALPHARITH ->
           LET p == WordBufferVector_push(v, b, okGrow, okInit)
           IN  [rst |-> p.rst, state |-> st, wbuf |-> NullBuffer,
                vec |-> p.vec]
      [] st = IN_WORD_AFTER_SYMBOL ->
           LET d == WordBuffer_backspace(b)
               p == WordBufferVector_push(v, d, okGrow, okInit)
           IN  [rst |-> p.rst, state |-> st, wbuf |-> NullBuffer,
                vec |-> p.vec]
      [] OTHER ->
           [rst |-> SUCCESS, state |-> st, wbuf |-> NullBuffer, vec |-> v]

(***************************************************************************)
(* utils.c: next_2power and fnvhash.                                       *)
(***************************************************************************)
RECURSIVE bitor(_, _)
bitor(a, b) ==
    IF a = 0 THEN b
    ELSE IF b = 0 THEN a
    ELSE 2 * bitor(a \div 2, b \div 2) + (IF a % 2 = 1 \/ b % 2 = 1 THEN 1 ELSE 0)

RECURSIVE bitxor(_, _)
bitxor(a, b) ==
    IF a = 0 THEN b
    ELSE IF b = 0 THEN a
    ELSE 2 * bitxor(a \div 2, b \div 2) + (((a % 2) + (b % 2)) % 2)

\* v >> k
RECURSIVE shr(_, _)
shr(v, k) == IF k = 0 THEN v ELSE shr(v \div 2, k - 1)

\* v |= v >> k
OrShift(v, k) == bitor(v, shr(v, k))

next_2power(num) ==
    IF num = 0 THEN 1
    ELSE OrShift(OrShift(OrShift(OrShift(OrShift(OrShift(num - 1, 1), 2), 4),
                                 8), 16), 32) + 1

\* The hash is only ever used modulo the table capacity, a power of two of
\* at most 2^16 here, so the 64-bit arithmetic is carried out on the low 16
\* bits: the low 16 bits of a xor and of a product depend only on the low 16
\* bits of the operands.  FNV_OFFSET and FNV_PRIME are the low 16 bits of
\* 0xcbf29ce484222325 and of 0x100000001b3.
HashWidth == 65536
FNV_OFFSET == 8997
FNV_PRIME == 435

RECURSIVE fnvloop(_, _, _, _)
fnvloop(hword, wlen, k, hash) ==
    IF k >= wlen THEN hash
    ELSE fnvloop(hword, wlen, k + 1,
                 (bitxor(hash, hword[k + 1] % 256) * FNV_PRIME) % HashWidth)

\* hword: the wlen bytes hashed, as a sequence
fnvhash(hword, wlen) == fnvloop(hword, wlen, 0, FNV_OFFSET)

(***************************************************************************)
(* MemoryPool (string pool).  memSpace is the address of the buffer and    *)
(* bytes its contents; address 0 is NULL.                                  *)
(***************************************************************************)
NULL == 0

\* the addresses the allocator may place the pool's buffer at, far enough
\* apart for the buffers not to overlap
Bases == {1000 * k : k \in 1..NumBases}

NullPool == [memSpace |-> NULL, bytes |-> << >>, nextChar |-> 0, capacity |-> 0]

MemoryPool_init(initCapacity, base) ==
    [memSpace |-> base, bytes |-> Calloc(initCapacity), nextChar |-> 0,
     capacity |-> initCapacity]

\* the block may end at the last byte of the pool
MemoryPool_alloc_block_NonStrict(memp, numChars) ==
    IF memp.nextChar + numChars <= memp.capacity
    THEN [ptr |-> memp.memSpace + memp.nextChar,
          memp |-> [memp EXCEPT !.nextChar = memp.nextChar + numChars]]
    ELSE [ptr |-> NULL, memp |-> memp]

\* the next free offset advances by one byte less than the block
MemoryPool_alloc_block_ShortAdvance(memp, numChars) ==
    IF memp.nextChar + numChars < memp.capacity
    THEN [ptr |-> memp.memSpace + memp.nextChar,
          memp |-> [memp EXCEPT !.nextChar =
                       IF numChars = 0 THEN memp.nextChar
                       ELSE memp.nextChar + numChars - 1]]
    ELSE [ptr |-> NULL, memp |-> memp]

MemoryPool_alloc_block(memp, numChars) ==
    IF memp.nextChar + numChars < memp.capacity
    THEN [ptr |-> memp.memSpace + memp.nextChar,
          memp |-> [memp EXCEPT !.nextChar = memp.nextChar + numChars]]
    ELSE [ptr |-> NULL, memp |-> memp]

\* the percentages are compared without the integer division
MemoryPool_size_below_Exact(memp, limitPrc) ==
    memp.nextChar * 100 < memp.capacity * limitPrc

MemoryPool_size_below(memp, limitPrc) ==
    memp.nextChar < (memp.capacity * limitPrc) \div 100

\* the pool is reallocated with the capacity it has
MemoryPool_expand_SameCapacity(memp, newBase, ok) ==
    IF ~ok THEN [rst |-> GEN_FAIL, memp |-> memp]
    ELSE [rst |-> SUCCESS, memp |-> [memp EXCEPT !.memSpace = newBase]]

\* the new buffer is not given the bytes of the old one
MemoryPool_expand_Fresh(memp, newBase, ok) ==
    LET newCapacity == 2 * memp.capacity
    IN  IF ~ok THEN [rst |-> GEN_FAIL, memp |-> memp]
        ELSE [rst |-> SUCCESS,
              memp |-> [memp EXCEPT
                          !.capacity = newCapacity,
                          !.memSpace = newBase,
                          !.bytes = [k \in 0..(newCapacity - 1) |->
                                        Indeterminate]]]

\* realloc either fails (ok false) or returns the buffer at newBase, which
\* may or may not be the old address
MemoryPool_expand(memp, newBase, ok) ==
    LET newCapacity == 2 * memp.capacity
    IN  IF ~ok THEN [rst |-> GEN_FAIL, memp |-> memp]
        ELSE [rst |-> SUCCESS,
              memp |-> [memp EXCEPT
                          !.capacity = newCapacity,
                          !.memSpace = newBase,
                          !.bytes = Realloc(memp.bytes, memp.capacity,
                                            newCapacity)]]

\* the byte a pointer refers to: a pointer outside the pool's current buffer
\* (stale or NULL) reads an indeterminate value
PoolRead(memp, addr) ==
    IF addr - memp.memSpace >= 0 /\ addr - memp.memSpace < memp.capacity
    THEN memp.bytes[addr - memp.memSpace]
    ELSE Indeterminate

\* the len bytes at addr, as a sequence
ReadBlock(memp, addr, len) == [k \in 1..len |-> PoolRead(memp, addr + k - 1)]

\* the bytes written at addr
WriteBlock(memp, addr, block) ==
    [memp EXCEPT !.bytes =
        [k \in DOMAIN memp.bytes |->
            IF k >= addr - memp.memSpace
               /\ k < addr - memp.memSpace + Len(block)
            THEN block[k - (addr - memp.memSpace) + 1]
            ELSE memp.bytes[k]]]

\* the C string at addr: the bytes before the terminator
RECURSIVE StrAt(_, _)
StrAt(memp, addr) ==
    LET c == PoolRead(memp, addr)
    IN  IF c = 0 THEN << >>
        ELSE IF c = Indeterminate THEN << Indeterminate >>
        ELSE << c >> \o StrAt(memp, addr + 1)

\* strcmp on two C strings given as sequences: negative, 0 or positive
RECURSIVE strcmp(_, _)
strcmp(s1, s2) ==
    IF s1 = << >> /\ s2 = << >> THEN 0
    ELSE IF s1 = << >> THEN -1
    ELSE IF s2 = << >> THEN 1
    ELSE IF Head(s1) % 256 < Head(s2) % 256 THEN -1
    ELSE IF Head(s1) % 256 > Head(s2) % 256 THEN 1
    ELSE strcmp(Tail(s1), Tail(s2))

(***************************************************************************)
(* WordHashTable.                                                          *)
(***************************************************************************)
ZeroEntry == [letters |-> NULL, count |-> 0, length |-> 0, displacement |-> 0]

NullTable ==
    [entries |-> << >>, alphOrderArray |-> << >>, capacity |-> 0, size |-> 0,
     stringsPool |-> NullPool,
     hstats |-> [totalInsertions |-> 0, totalCollisions |-> 0],
     pfstats |-> [maxLengthWordIndex |-> 0, maxCountWordIndex |-> 0]]

WordHashTable_create(initCapacity, base) ==
    [NullTable EXCEPT
        !.capacity = initCapacity,
        !.entries = [k \in 0..(initCapacity - 1) |-> ZeroEntry],
        !.alphOrderArray = Calloc(initCapacity),
        !.stringsPool = MemoryPool_init(6 * initCapacity, base)]

\* the text of the entry in slot ind, read through its stored pointer
EntryWord(t, ind) == StrAt(t.stringsPool, t.entries[ind].letters)

\* the backward scan of orderArray_insert from position k
RECURSIVE orderShift(_, _, _, _)
orderShift(t, newWord, ind, k) ==
    IF k >= 0 /\ strcmp(StrAt(t.stringsPool, newWord),
                        EntryWord(t, t.alphOrderArray[k])) <= 0
    THEN orderShift([t EXCEPT !.alphOrderArray[k + 1] = t.alphOrderArray[k]],
                    newWord, ind, k - 1)
    ELSE [t EXCEPT !.alphOrderArray[k + 1] = ind]

\* the index is appended without the backward scan
orderArray_insert_Append(t, newWord, ind) ==
    [t EXCEPT !.alphOrderArray[t.size] = ind]

orderArray_insert(t, newWord, ind) ==
    IF t.size = 0 THEN [t EXCEPT !.alphOrderArray[0] = ind]
    ELSE orderShift(t, newWord, ind, t.size - 1)

\* the insertion is counted before the block is allocated
NewEntry_CountsFailure(t, buf, curIndex, displ, newDispl) ==
    LET a      == MemoryPool_alloc_block(t.stringsPool, buf.curPosition + 1)
        length == buf.curPosition + 1
        t1 == [t EXCEPT
                 !.stringsPool = WriteBlock(a.memp, a.ptr,
                                            strncpy(buf.letters, length, 0)),
                 !.entries[curIndex] =
                     [letters |-> a.ptr,
                      count |-> t.entries[curIndex].count + 1,
                      length |-> length,
                      displacement |-> displ]]
        t2 == orderArray_insert(t1, a.ptr, curIndex)
        t3 == [t2 EXCEPT
                 !.hstats.totalInsertions = @ + 1,
                 !.hstats.totalCollisions =
                     IF newDispl > 0 THEN @ + newDispl ELSE @]
        t4 == IF t3.size = 0
              THEN [t3 EXCEPT !.pfstats.maxCountWordIndex = curIndex,
                              !.pfstats.maxLengthWordIndex = curIndex]
              ELSE IF length > t3.entries[t3.pfstats.maxLengthWordIndex].length
              THEN [t3 EXCEPT !.pfstats.maxLengthWordIndex = curIndex]
              ELSE t3
    IN  IF a.ptr = NULL
        THEN [rst |-> DATA_STRUCT_FULL,
              whtab |-> [t EXCEPT !.entries[curIndex].letters = NULL,
                                  !.hstats.totalInsertions = @ + 1]]
        ELSE [rst |-> SUCCESS, whtab |-> [t4 EXCEPT !.size = @ + 1]]

\* add_word, empty slot found: the new entry is stored in slot curIndex with
\* displacement displ (newDispl is its absolute value)
\* the signed displacement is added to the collisions
NewEntry_SignedCollisions(t, buf, curIndex, displ, newDispl) ==
    LET a      == MemoryPool_alloc_block(t.stringsPool, buf.curPosition + 1)
        length == buf.curPosition + 1
        t1 == [t EXCEPT
                 !.stringsPool = WriteBlock(a.memp, a.ptr,
                                            strncpy(buf.letters, length, 0)),
                 !.entries[curIndex] =
                     [letters |-> a.ptr,
                      count |-> t.entries[curIndex].count + 1,
                      length |-> length,
                      displacement |-> displ]]
        t2 == orderArray_insert(t1, a.ptr, curIndex)
        t3 == [t2 EXCEPT
                 !.hstats.totalInsertions = @ + 1,
                 !.hstats.totalCollisions = @ + displ]
        t4 == IF t3.size = 0
              THEN [t3 EXCEPT !.pfstats.maxCountWordIndex = curIndex,
                              !.pfstats.maxLengthWordIndex = curIndex]
              ELSE IF length > t3.entries[t3.pfstats.maxLengthWordIndex].length
              THEN [t3 EXCEPT !.pfstats.maxLengthWordIndex = curIndex]
              ELSE t3
    IN  IF a.ptr = NULL
        THEN [rst |-> DATA_STRUCT_FULL,
              whtab |-> [t EXCEPT !.entries[curIndex].letters = NULL]]
        ELSE [rst |-> SUCCESS, whtab |-> [t4 EXCEPT !.size = @ + 1]]

\* the displacement is stored without its sign
NewEntry_Unsigned(t, buf, curIndex, displ, newDispl) ==
    LET a      == MemoryPool_alloc_block(t.stringsPool, buf.curPosition + 1)
        length == buf.curPosition + 1
        t1 == [t EXCEPT
                 !.stringsPool = WriteBlock(a.memp, a.ptr,
                                            strncpy(buf.letters, length, 0)),
                 !.entries[curIndex] =
                     [letters |-> a.ptr,
                      count |-> t.entries[curIndex].count + 1,
                      length |-> length,
                      displacement |-> newDispl]]
        t2 == orderArray_insert(t1, a.ptr, curIndex)
        t3 == [t2 EXCEPT
                 !.hstats.totalInsertions = @ + 1,
                 !.hstats.totalCollisions =
                     IF newDispl > 0 THEN @ + newDispl ELSE @]
        t4 == IF t3.size = 0
              THEN [t3 EXCEPT !.pfstats.maxCountWordIndex = curIndex,
                              !.pfstats.maxLengthWordIndex = curIndex]
              ELSE IF length > t3.entries[t3.pfstats.maxLengthWordIndex].length
              THEN [t3 EXCEPT !.pfstats.maxLengthWordIndex = curIndex]
              ELSE t3
    IN  IF a.ptr = NULL
        THEN [rst |-> DATA_STRUCT_FULL,
              whtab |-> [t EXCEPT !.entries[curIndex].letters = NULL]]
        ELSE [rst |-> SUCCESS, whtab |-> [t4 EXCEPT !.size = @ + 1]]

NewEntry(t, buf, curIndex, displ, newDispl) ==
    LET a      == MemoryPool_alloc_block(t.stringsPool, buf.curPosition + 1)
        length == buf.curPosition + 1
        t1 == [t EXCEPT
                 !.stringsPool = WriteBlock(a.memp, a.ptr,
                                            strncpy(buf.letters, length, 0)),
                 !.entries[curIndex] =
                     [letters |-> a.ptr,
                      count |-> t.entries[curIndex].count + 1,
                      length |-> length,
                      displacement |-> displ]]
        t2 == orderArray_insert(t1, a.ptr, curIndex)
        t3 == [t2 EXCEPT
                 !.hstats.totalInsertions = @ + 1,
                 !.hstats.totalCollisions =
                     IF newDispl > 0 THEN @ + newDispl ELSE @]
        t4 == IF t3.size = 0
              THEN [t3 EXCEPT !.pfstats.maxCountWordIndex = curIndex,
                              !.pfstats.maxLengthWordIndex = curIndex]
              ELSE IF length > t3.entries[t3.pfstats.maxLengthWordIndex].length
              THEN [t3 EXCEPT !.pfstats.maxLengthWordIndex = curIndex]
              ELSE t3
    IN  IF a.ptr = NULL
        THEN [rst |-> DATA_STRUCT_FULL,
              whtab |-> [t EXCEPT !.entries[curIndex].letters = NULL]]
        ELSE [rst |-> SUCCESS, whtab |-> [t4 EXCEPT !.size = @ + 1]]

\* the whole text is compared
EntryMatches_FullCompare(t, curEntry, buf, displ) ==
    /\ curEntry.displacement = displ
    /\ StrAt(t.stringsPool, curEntry.letters) = Word(buf)

\* only the displacement is compared
EntryMatches_DisplacementOnly(t, curEntry, buf, displ) ==
    curEntry.displacement = displ

\* the stored displacement is compared with the opposite sign
EntryMatches_WrongSign(t, curEntry, buf, displ) ==
    /\ curEntry.length = buf.curPosition + 1
    /\ curEntry.displacement = -displ
    /\ PoolRead(t.stringsPool, curEntry.letters) = buf.letters[0]
    /\ PoolRead(t.stringsPool, curEntry.letters + curEntry.length - 2)
         = buf.letters[buf.curPosition - 1]

\* add_word, occupied slot: is the entry taken to be the token's?
EntryMatches(t, curEntry, buf, displ) ==
    /\ curEntry.length = buf.curPosition + 1
    /\ curEntry.displacement = displ
    /\ PoolRead(t.stringsPool, curEntry.letters) = buf.letters[0]
    /\ PoolRead(t.stringsPool, curEntry.letters + curEntry.length - 2)
         = buf.letters[buf.curPosition - 1]

\* the matching entry's count is compared but not incremented
CountUp_NoIncrement(t, curIndex) ==
    IF t.entries[curIndex].count
         > t.entries[t.pfstats.maxCountWordIndex].count
    THEN [t EXCEPT !.pfstats.maxCountWordIndex = curIndex]
    ELSE t

\* the count is incremented and the slot of the largest count is left alone
CountUp_StaleMax(t, curIndex) ==
    [t EXCEPT !.entries[curIndex].count = @ + 1]

\* the increment is counted as an insertion
CountUp_CountsInsertion(t, curIndex) ==
    LET t1 == [t EXCEPT !.entries[curIndex].count = @ + 1,
                        !.hstats.totalInsertions = @ + 1]
    IN  IF t1.entries[curIndex].count
             > t1.entries[t1.pfstats.maxCountWordIndex].count
        THEN [t1 EXCEPT !.pfstats.maxCountWordIndex = curIndex]
        ELSE t1

\* add_word, matching entry found in slot curIndex
CountUp(t, curIndex) ==
    LET t1 == [t EXCEPT !.entries[curIndex].count = @ + 1]
    IN  IF t1.entries[curIndex].count
             > t1.entries[t1.pfstats.maxCountWordIndex].count
        THEN [t1 EXCEPT !.pfstats.maxCountWordIndex = curIndex]
        ELSE t1

\* the ideal slot is passed over
TrySlot_PassIdeal(t, buf, curIndex, displ, newDispl) ==
    IF newDispl = 0 THEN [done |-> FALSE, rst |-> GEN_FAIL, whtab |-> t]
    ELSE IF t.entries[curIndex].count = 0
    THEN LET r == NewEntry(t, buf, curIndex, displ, newDispl)
         IN  [done |-> TRUE, rst |-> r.rst, whtab |-> r.whtab]
    ELSE IF EntryMatches(t, t.entries[curIndex], buf, displ)
    THEN [done |-> TRUE, rst |-> SUCCESS, whtab |-> CountUp(t, curIndex)]
    ELSE [done |-> FALSE, rst |-> GEN_FAIL, whtab |-> t]

\* add_word at one probed slot: done tells whether the call returns here
TrySlot(t, buf, curIndex, displ, newDispl) ==
    IF t.entries[curIndex].count = 0
    THEN LET r == NewEntry(t, buf, curIndex, displ, newDispl)
         IN  [done |-> TRUE, rst |-> r.rst, whtab |-> r.whtab]
    ELSE IF EntryMatches(t, t.entries[curIndex], buf, displ)
    THEN [done |-> TRUE, rst |-> SUCCESS, whtab |-> CountUp(t, curIndex)]
    ELSE [done |-> FALSE, rst |-> GEN_FAIL, whtab |-> t]

\* the do-while loop of add_word from displacement newDispl
RECURSIVE probe(_, _, _, _)
probe(t, buf, hashIndex, newDispl) ==
    LET r1 == IF hashIndex + newDispl < t.capacity
              THEN TrySlot(t, buf, hashIndex + newDispl, newDispl, newDispl)
              ELSE [done |-> FALSE, rst |-> GEN_FAIL, whtab |-> t]
        r2 == IF hashIndex >= newDispl /\ newDispl > 0
              THEN TrySlot(t, buf, hashIndex - newDispl, -newDispl, newDispl)
              ELSE [done |-> FALSE, rst |-> GEN_FAIL, whtab |-> t]
    IN  IF r1.done THEN [rst |-> r1.rst, whtab |-> r1.whtab]
        ELSE IF r2.done THEN [rst |-> r2.rst, whtab |-> r2.whtab]
        ELSE IF hashIndex + newDispl + 1 < t.capacity
                \/ hashIndex >= newDispl + 1
        THEN probe(t, buf, hashIndex, newDispl + 1)
        ELSE [rst |-> GEN_FAIL, whtab |-> t]

\* the bytes of a buffer's word with its terminator
BufBytes(buf) == [k \in 1..(buf.curPosition + 1) |-> buf.letters[k - 1]]

WordHashTable_add_word(t, buf) ==
    probe(t, buf,
          fnvhash(BufBytes(buf), buf.curPosition + 1) % t.capacity, 0)

\* the table is always found below the limit
WordHashTable_size_below_Always(t, limitPrc) == TRUE

\* the percentages are compared without the integer division
WordHashTable_size_below_Exact(t, limitPrc) ==
    t.size * 100 < t.capacity * limitPrc

WordHashTable_size_below(t, limitPrc) ==
    t.size < (t.capacity * limitPrc) \div 100

\* the loop of stringPointers_update from position k
RECURSIVE stringPointers_from(_, _, _)
stringPointers_from(t, prevPoolBasePtr, k) ==
    IF k >= t.size THEN t
    ELSE LET validIndex == t.alphOrderArray[k]
         IN  stringPointers_from(
                 [t EXCEPT !.entries[validIndex].letters =
                      (@ - prevPoolBasePtr) + t.stringsPool.memSpace],
                 prevPoolBasePtr, k + 1)

\* the pointers are left as they were
stringPointers_update_Skip(t, prevPoolBasePtr) == t

stringPointers_update(t, prevPoolBasePtr) ==
    stringPointers_from(t, prevPoolBasePtr, 0)

WordHashTable_MemoryPool_expand(t, newBase, ok) ==
    LET prevPoolPtr == t.stringsPool.memSpace
        e  == MemoryPool_expand(t.stringsPool, newBase, ok)
        t1 == [t EXCEPT !.stringsPool = e.memp]
    IN  IF e.rst # SUCCESS THEN [rst |-> GEN_FAIL, whtab |-> t]
        ELSE IF prevPoolPtr # t1.stringsPool.memSpace
        THEN [rst |-> SUCCESS, whtab |-> stringPointers_update(t1, prevPoolPtr)]
        ELSE [rst |-> SUCCESS, whtab |-> t1]

\* the count of a moved entry starts again at 1
Rehashed_ResetCount(t, ext, idx, oldIndex, curIndex, displ, newDispl) ==
    LET oldEntry == t.entries[oldIndex]
        t1 == [t EXCEPT !.alphOrderArray[idx] = curIndex]
        t2 == IF oldIndex = t1.pfstats.maxCountWordIndex
              THEN [t1 EXCEPT !.pfstats.maxCountWordIndex = curIndex]
              ELSE t1
        t3 == IF oldIndex = t2.pfstats.maxLengthWordIndex
              THEN [t2 EXCEPT !.pfstats.maxLengthWordIndex = curIndex]
              ELSE t2
    IN  [whtab |-> [t3 EXCEPT
                      !.hstats.totalInsertions = @ + 1,
                      !.hstats.totalCollisions =
                          IF newDispl > 0 THEN @ + newDispl ELSE @],
         ext |-> [ext EXCEPT ![curIndex] =
                      [letters |-> oldEntry.letters,
                       length |-> oldEntry.length,
                       count |-> 1,
                       displacement |-> displ]]]

\* migrate: the entry at position idx of the order array, found in old slot
\* oldIndex, is stored in slot curIndex of the extended array
Rehashed(t, ext, idx, oldIndex, curIndex, displ, newDispl) ==
    LET oldEntry == t.entries[oldIndex]
        t1 == [t EXCEPT !.alphOrderArray[idx] = curIndex]
        t2 == IF oldIndex = t1.pfstats.maxCountWordIndex
              THEN [t1 EXCEPT !.pfstats.maxCountWordIndex = curIndex]
              ELSE t1
        t3 == IF oldIndex = t2.pfstats.maxLengthWordIndex
              THEN [t2 EXCEPT !.pfstats.maxLengthWordIndex = curIndex]
              ELSE t2
    IN  [whtab |-> [t3 EXCEPT
                      !.hstats.totalInsertions = @ + 1,
                      !.hstats.totalCollisions =
                          IF newDispl > 0 THEN @ + newDispl ELSE @],
         ext |-> [ext EXCEPT ![curIndex] =
                      [letters |-> oldEntry.letters,
                       length |-> oldEntry.length,
                       count |-> oldEntry.count,
                       displacement |-> displ]]]

\* the do-while loop of migrate for one entry, from displacement newDispl
RECURSIVE migrateProbe(_, _, _, _, _, _)
migrateProbe(t, ext, idx, oldIndex, hashIndex, newDispl) ==
    IF hashIndex + newDispl < t.capacity
       /\ ext[hashIndex + newDispl].count = 0
    THEN Rehashed(t, ext, idx, oldIndex, hashIndex + newDispl, newDispl,
                  newDispl)
    ELSE IF hashIndex >= newDispl /\ newDispl > 0
            /\ ext[hashIndex - newDispl].count = 0
    THEN Rehashed(t, ext, idx, oldIndex, hashIndex - newDispl, -newDispl,
                  newDispl)
    ELSE IF hashIndex + newDispl + 1 < t.capacity
            \/ hashIndex >= newDispl + 1
    THEN migrateProbe(t, ext, idx, oldIndex, hashIndex, newDispl + 1)
    ELSE [whtab |-> t, ext |-> ext]

\* the for loop of migrate from position idx of the order array
RECURSIVE migrateFrom(_, _, _)
migrateFrom(t, ext, idx) ==
    IF idx >= t.size THEN [whtab |-> t, ext |-> ext]
    ELSE LET oldIndex  == t.alphOrderArray[idx]
             oldEntry  == t.entries[oldIndex]
             hashIndex == fnvhash(ReadBlock(t.stringsPool, oldEntry.letters,
                                            oldEntry.length),
                                  oldEntry.length) % t.capacity
             r == migrateProbe(t, ext, idx, oldIndex, hashIndex, 0)
         IN  migrateFrom(r.whtab, r.ext, idx + 1)

WordHashTable_migrate(t, extEntTab) == migrateFrom(t, extEntTab, 0)

\* the order array keeps the slot numbers of before the migration
WordHashTable_expand_StaleOrder(t, okEntries, okOrder, newBase, okPool) ==
    LET newCapacity == t.capacity * 2
        extEntries  == [k \in 0..(newCapacity - 1) |-> ZeroEntry]
        t1 == [t EXCEPT
                 !.capacity = newCapacity,
                 !.alphOrderArray = Realloc(t.alphOrderArray, t.capacity,
                                            newCapacity)]
        p  == IF ~MemoryPool_size_below(t1.stringsPool, 80)
              THEN WordHashTable_MemoryPool_expand(t1, newBase, okPool)
              ELSE [rst |-> SUCCESS, whtab |-> t1]
        m  == WordHashTable_migrate(p.whtab, extEntries)
    IN  IF ~okEntries \/ ~okOrder THEN [rst |-> GEN_FAIL, whtab |-> t]
        ELSE IF p.rst # SUCCESS THEN [rst |-> GEN_FAIL, whtab |-> t1]
        ELSE [rst |-> SUCCESS,
              whtab |-> [m.whtab EXCEPT !.entries = m.ext,
                                        !.alphOrderArray = t1.alphOrderArray]]

\* okEntries, okOrder, okPool: the calloc of the new entries, the realloc of
\* the order array and the realloc of the pool succeed
WordHashTable_expand(t, okEntries, okOrder, newBase, okPool) ==
    LET newCapacity == t.capacity * 2
        extEntries  == [k \in 0..(newCapacity - 1) |-> ZeroEntry]
        t1 == [t EXCEPT
                 !.capacity = newCapacity,
                 !.alphOrderArray = Realloc(t.alphOrderArray, t.capacity,
                                            newCapacity)]
        p  == IF ~MemoryPool_size_below(t1.stringsPool, 80)
              THEN WordHashTable_MemoryPool_expand(t1, newBase, okPool)
              ELSE [rst |-> SUCCESS, whtab |-> t1]
        m  == WordHashTable_migrate(p.whtab, extEntries)
    IN  IF ~okEntries \/ ~okOrder THEN [rst |-> GEN_FAIL, whtab |-> t]
        ELSE IF p.rst # SUCCESS THEN [rst |-> GEN_FAIL, whtab |-> t1]
        ELSE [rst |-> SUCCESS, whtab |-> [m.whtab EXCEPT !.entries = m.ext]]

\* the (word, count) lines WordHashTable_count_print writes
WordHashTable_count_print(t) ==
    IF t.size = 0 THEN << >>
    ELSE [k \in 1..t.size |->
            << EntryWord(t, t.alphOrderArray[k - 1]),
               t.entries[t.alphOrderArray[k - 1]].count >>]

(***************************************************************************)
(* The inputs.                                                             *)
(***************************************************************************)
\* the raw words the input texts of the whole program are made of
RawWords ==
    { T(<< "H", "e", "l", "l", "o" >>), T(<< "H", "E", "L", "L", "O" >>),
      T(<< "h", "e", "l", "l", "o" >>), T(<< "c", "a", "t" >>),
      T(<< "c", "u", "t" >>), T(<< "t" >>),
      T(<< "a", "-", "-", "b" >>), T(<< "1", "-", ".", "2" >>) }

RECURSIVE Join(_)
Join(ws) ==
    IF ws = << >> THEN << >>
    ELSE IF Len(ws) = 1 THEN ws[1]
    ELSE ws[1] \o << 32 >> \o Join(Tail(ws))

\* the texts of up to MaxWords raw words separated by one space
Texts == { Join(ws) : ws \in UNION { [1..n -> RawWords] : n \in 0..MaxWords } }

\* the characters of the exhaustive tokenizer inputs: a lowercase and an
\* uppercase letter, a digit, two in-word symbols, a space
TokChars == { 97, 66, 49, 45, 46, 32 }

TextIts == T(<< "i", "t", "'", "s" >>)
TextEndDot == T(<< "e", "n", "d", "." >>)
TextADashDashB == T(<< "a", "-", "-", "b" >>)
TextADashDashSpaceB == T(<< "a", "-", "-", " ", "b" >>)
TextHello3 ==
    T(<< "H", "e", "l", "l", "o", " ", "H", "E", "L", "L", "O", " ",
         "h", "e", "l", "l", "o" >>)
TextCatCut == T(<< "c", "a", "t", " ", "c", "u", "t" >>)

TokExamples ==
    { TextIts, TextEndDot, TextADashDashB, TextADashDashSpaceB, TextHello3 }

TokInputs ==
    UNION { [1..n -> TokChars] : n \in 0..MaxInputLen } \cup TokExamples

(***************************************************************************)
(* The program: main after its arguments are parsed and the token list and *)
(* the token buffer are created.                                           *)
(***************************************************************************)
\* The outcomes of the allocations of one step.  At most one of the token
\* buffer's realloc and the token list's realloc runs in a step of get_input,
\* so one flag stands for both; the calloc of the new slot comes after.
PushOutcomes == { << TRUE, TRUE, TRUE >>, << FALSE, FALSE, TRUE >>,
                  << TRUE, TRUE, FALSE >> }

\* the pool's realloc: it returns NULL, or the buffer at one of the bases
ReallocOutcomes == { << FALSE, NULL >> } \cup { << TRUE, b >> : b \in Bases }

\* expand: the first or the second allocation fails, or both succeed and the
\* pool's realloc has one of its outcomes
ExpandOutcomes ==
    { << FALSE, TRUE, TRUE, NULL >>, << TRUE, FALSE, TRUE, NULL >> }
    \cup { << TRUE, TRUE, o[1], o[2] >> : o \in ReallocOutcomes }

\* the table is created: the four allocations succeed and the pool is at
\* one of the bases, or the first, second, third or fourth fails
CreateOutcomes ==
    { << TRUE, TRUE, TRUE, TRUE, b >> : b \in Bases }
    \cup { << FALSE, TRUE, TRUE, TRUE, NULL >>,
            << TRUE, FALSE, TRUE, TRUE, NULL >>,
            << TRUE, TRUE, FALSE, TRUE, NULL >>,
            << TRUE, TRUE, TRUE, FALSE, NULL >> }

(***************************************************************************)
(* The heap: the blocks obtained from calloc and realloc and not yet       *)
(* freed, each named after the pointer that holds it.                      *)
(***************************************************************************)
\* what WordBuffer_destroy frees
BufBlocks == { << "wbuf", 0 >>, << "wbuf.letters", 0 >> }

\* the letters of the slots from to upto - 1 of the token list
LettersBlocks(from, upto) == { << "letters", k >> : k \in from..(upto - 1) }

\* what WordBufferVector_destroy frees
VecBlocks(v) ==
    LettersBlocks(0, v.curPosition) \cup { << "buffers", 0 >>, << "vec", 0 >> }

\* what WordHashTable_free frees
TableFreed == { << "memSpace", 0 >>, << "entries", 0 >>,
                << "alphOrderArray", 0 >> }

\* what WordHashTable_destroy frees
TableBlocks == TableFreed \cup { << "whtab", 0 >> }

\* the blocks of WordHashTable_create that are live when it returns
WordHashTable_create_live(ok) ==
    IF ~ok[1] THEN { }
    ELSE IF ~ok[2] THEN { << "whtab", 0 >> }
    ELSE IF ~ok[3]
    THEN { << "whtab", 0 >>, << "entries", 0 >> } \ { << "entries", 0 >> }
    ELSE IF ~ok[4]
    THEN { << "whtab", 0 >>, << "entries", 0 >>, << "alphOrderArray", 0 >> }
           \ { << "alphOrderArray", 0 >>, << "entries", 0 >> }
    ELSE TableBlocks

\* the heap after WordHashTable_expand: the new array of entries is freed on
\* a failure and takes the place of the old one, which is freed, on success
WordHashTable_expand_live(h, r) ==
    LET ext == { << "extEntries", 0 >> }
    IN  IF r.rst = SUCCESS
        THEN (((h \cup ext) \ { << "entries", 0 >> }) \ ext)
               \cup { << "entries", 0 >> }
        ELSE (h \cup ext) \ ext

\* main on a failure and at its end: WordHashTable_destroy and
\* WordBufferVector_destroy
Destroyed(h, v) == (h \ TableBlocks) \ VecBlocks(v)

InitWith(inputs) ==
    /\ text \in inputs
    /\ pos = 0
    /\ state = BETWEEN_WORDS
    /\ wbuf = WordBuffer_create(INITIAL_WORD_BUFFER_LENGTH)
    /\ vec = WordBufferVector_create(INITIAL_WORD_VECTOR_LENGTH)
    /\ pc = "get_input"
    /\ i = 0
    /\ rst = SUCCESS
    /\ whtab = NullTable
    /\ nAdded = 0
    /\ report = << >>
    /\ stored = { }
    /\ heap = VecBlocks(vec) \cup BufBlocks

Init == InitWith(Texts)

InitTok == InitWith(TokInputs)

\* get_input: fgetc returns a character
ReadChar ==
    /\ pc = "get_input"
    /\ pos < Len(text)
    /\ \E ok \in PushOutcomes :
         LET r == get_input_char(state, wbuf, vec, text[pos + 1], ok[1],
                                 ok[2], ok[3])
         IN  /\ state' = r.state
             /\ wbuf' = r.wbuf
             /\ vec' = r.vec
             /\ rst' = r.rst
             /\ pc' = IF r.rst = SUCCESS THEN "get_input" ELSE "exit_failure"
             /\ heap' = IF r.rst = SUCCESS
                        THEN heap \cup LettersBlocks(vec.curPosition,
                                                     r.vec.curPosition)
                        ELSE Destroyed(heap \ BufBlocks, r.vec)
    /\ pos' = pos + 1
    /\ UNCHANGED << text, i, whtab, nAdded, report, stored >>

\* get_input: fgetc returns EOF
ReadEOF ==
    /\ pc = "get_input"
    /\ pos = Len(text)
    /\ \E ok \in PushOutcomes :
         LET r == get_input_eof(state, wbuf, vec, ok[2], ok[3])
         IN  /\ state' = r.state
             /\ wbuf' = r.wbuf
             /\ vec' = r.vec
             /\ rst' = r.rst
             /\ pc' = IF r.rst = SUCCESS THEN "create" ELSE "exit_failure"
             /\ heap' = IF r.rst = SUCCESS
                        THEN (heap \cup LettersBlocks(vec.curPosition,
                                                      r.vec.curPosition))
                               \ BufBlocks
                        ELSE Destroyed(heap \ BufBlocks, r.vec)
    /\ UNCHANGED << text, pos, i, whtab, nAdded, report, stored >>

\* the table is created with as many slots as there are tokens
wtabInitSize_Exact(inputSize) == IF inputSize = 0 THEN 1 ELSE inputSize

\* the table is always created with the power of two above the token count
wtabInitSize_Ceil(inputSize) == next_2power(inputSize)

\* main: the initial size of the table
wtabInitSize(inputSize) ==
    LET ceilSize  == next_2power(inputSize)
        floorSize == ceilSize \div 2
        \* inputSize - floorSize is unsigned: a negative difference wraps to
        \* a value above every floorSize / 2
        atLeast   == IF inputSize >= floorSize
                     THEN inputSize - floorSize >= floorSize \div 2
                     ELSE TRUE
    IN  IF atLeast THEN ceilSize ELSE floorSize

\* main: the table is created
CreateTable ==
    /\ pc = "create"
    /\ LET inputSize == WordBufferVector_get_size(vec)
       IN  \E ok \in CreateOutcomes :
             IF ok[1] /\ ok[2] /\ ok[3] /\ ok[4]
             THEN /\ whtab' = WordHashTable_create(wtabInitSize(inputSize),
                                                   ok[5])
                  /\ pc' = IF 0 < inputSize THEN "add_word" ELSE "print"
                  /\ heap' = heap \cup WordHashTable_create_live(ok)
             ELSE /\ whtab' = whtab
                  /\ pc' = "exit_failure"
                  /\ heap' = (heap \cup WordHashTable_create_live(ok))
                               \ VecBlocks(vec)
    /\ UNCHANGED << text, pos, state, wbuf, vec, i, rst, nAdded, report,
                    stored >>

\* History of the insertions: the pairs (offset in the pool, word) of the
\* words for which add_word made a new entry; the block of a new entry starts
\* at the pool's nextChar of before the call.
Stored(t, buf, r) ==
    IF r.rst = SUCCESS /\ r.whtab.size > t.size
    THEN stored \cup { << t.stringsPool.nextChar, Word(buf) >> }
    ELSE stored

\* main: one call of add_word for token i
AddWord ==
    /\ pc = "add_word"
    /\ LET r == WordHashTable_add_word(whtab, WordBufferVector_at(vec, i))
       IN  /\ whtab' = r.whtab
           /\ rst' = r.rst
           /\ nAdded' = IF r.rst = SUCCESS THEN nAdded + 1 ELSE nAdded
           /\ stored' = Stored(whtab, WordBufferVector_at(vec, i), r)
           /\ pc' = CASE r.rst = DATA_STRUCT_FULL -> "pool_expand"
                      [] r.rst = SUCCESS -> "size_check"
                      [] OTHER -> "exit_failure"
           /\ heap' = IF r.rst \in { SUCCESS, DATA_STRUCT_FULL } THEN heap
                      ELSE Destroyed(heap, vec)
    /\ UNCHANGED << text, pos, state, wbuf, vec, i, report >>

\* main: the pool is expanded after add_word returned DATA_STRUCT_FULL
PoolExpand ==
    /\ pc = "pool_expand"
    /\ \E o \in ReallocOutcomes :
         LET r == WordHashTable_MemoryPool_expand(whtab, o[2], o[1])
         IN  /\ whtab' = r.whtab
             /\ pc' = IF r.rst = SUCCESS THEN "add_word" ELSE "exit_failure"
             /\ heap' = IF r.rst = SUCCESS THEN heap
                        ELSE Destroyed(heap, vec)
    /\ UNCHANGED << text, pos, state, wbuf, vec, i, rst, nAdded, report,
                    stored >>

\* main: the end of one iteration of the loop over the tokens
NextToken ==
    /\ i' = i + 1
    /\ pc' = IF i + 1 < WordBufferVector_get_size(vec) THEN "add_word"
             ELSE "print"

\* main: the table is below 70% after the insertion
NoResize ==
    /\ pc = "size_check"
    /\ WordHashTable_size_below(whtab, 70)
    /\ NextToken
    /\ UNCHANGED << text, pos, state, wbuf, vec, rst, whtab, nAdded, report,
                    stored, heap >>

\* main: the table reached 70% and is expanded
Resize ==
    /\ pc = "size_check"
    /\ ~WordHashTable_size_below(whtab, 70)
    /\ \E ok \in ExpandOutcomes :
         LET r == WordHashTable_expand(whtab, ok[1], ok[2], ok[4], ok[3])
         IN  /\ whtab' = r.whtab
             /\ IF r.rst = SUCCESS THEN NextToken
                ELSE pc' = "exit_failure" /\ i' = i
             /\ heap' = IF r.rst = SUCCESS
                        THEN WordHashTable_expand_live(heap, r)
                        ELSE Destroyed(WordHashTable_expand_live(heap, r),
                                       vec)
    /\ UNCHANGED << text, pos, state, wbuf, vec, rst, nAdded, report,
                    stored >>

\* main: the report is printed
CountPrint ==
    /\ pc = "print"
    /\ report' = WordHashTable_count_print(whtab)
    /\ pc' = "exit_success"
    /\ heap' = Destroyed(heap, vec)
    /\ UNCHANGED << text, pos, state, wbuf, vec, i, rst, whtab, nAdded,
                    stored >>

Next ==
    \/ ReadChar
    \/ ReadEOF
    \/ CreateTable
    \/ AddWord
    \/ PoolExpand
    \/ NoResize
    \/ Resize
    \/ CountPrint

Spec == Init /\ [][Next]_vars

\* the tokenizer alone, on every short input
NextTok ==
    \/ ReadChar
    \/ ReadEOF

SpecTok == InitTok /\ [][NextTok]_vars

(***************************************************************************)
(* The engine on its own: a client that feeds a token list to a table and  *)
(* expands the pool and the table whenever it likes, in any order.         *)
(***************************************************************************)
EngineWords ==
    { T(<< "h", "e", "l", "l", "o" >>), T(<< "c", "a", "t" >>),
      T(<< "c", "u", "t" >>) }

\* the token buffer after the characters of w are pushed
RECURSIVE BufOf(_)
BufOf(w) ==
    IF w = << >> THEN WordBuffer_create(INITIAL_WORD_BUFFER_LENGTH)
    ELSE WordBuffer_push_char(BufOf(SubSeq(w, 1, Len(w) - 1)), w[Len(w)],
                              TRUE).wbuf

\* the token list after the words of ws are pushed
RECURSIVE VecOf(_)
VecOf(ws) ==
    IF ws = << >> THEN WordBufferVector_create(INITIAL_WORD_VECTOR_LENGTH)
    ELSE WordBufferVector_push(VecOf(SubSeq(ws, 1, Len(ws) - 1)),
                               BufOf(ws[Len(ws)]), TRUE, TRUE).vec

EngineLists ==
    { VecOf(ws) : ws \in UNION { [1..n -> EngineWords] :
                                   n \in 0..MaxEngineWords } }

InitEngine ==
    /\ text = << >>
    /\ pos = 0
    /\ state = BETWEEN_WORDS
    /\ wbuf = NullBuffer
    /\ vec \in EngineLists
    /\ pc = "engine"
    /\ i = 0
    /\ rst = SUCCESS
    /\ \E c \in {1, 2} : whtab = WordHashTable_create(c, 1000)
    /\ nAdded = 0
    /\ report = << >>
    /\ stored = { }
    /\ heap = VecBlocks(vec) \cup TableBlocks

\* add_word for the next token; the token is consumed when it succeeds
EngAddWord ==
    /\ pc = "engine"
    /\ i < WordBufferVector_get_size(vec)
    /\ LET r == WordHashTable_add_word(whtab, WordBufferVector_at(vec, i))
       IN  /\ whtab' = r.whtab
           /\ rst' = r.rst
           /\ nAdded' = IF r.rst = SUCCESS THEN nAdded + 1 ELSE nAdded
           /\ stored' = Stored(whtab, WordBufferVector_at(vec, i), r)
           /\ i' = IF r.rst = SUCCESS THEN i + 1 ELSE i
    /\ UNCHANGED << text, pos, state, wbuf, vec, pc, report, heap >>

\* rst is the status of the last add_word, as in main
EngPoolExpand ==
    /\ pc = "engine"
    /\ 2 * whtab.stringsPool.capacity <= MaxPoolCapacity
    /\ \E o \in ReallocOutcomes :
         LET r == WordHashTable_MemoryPool_expand(whtab, o[2], o[1])
         IN  whtab' = r.whtab
    /\ UNCHANGED << text, pos, state, wbuf, vec, pc, i, rst, nAdded, report,
                    stored, heap >>

\* an expand that fails before it has touched the table leaves it as it was;
\* one that fails after the capacity was doubled leaves a table that can only
\* be destroyed
EngExpand ==
    /\ pc = "engine"
    /\ 2 * whtab.capacity <= MaxCapacity
    /\ \E ok \in ExpandOutcomes :
         LET r == WordHashTable_expand(whtab, ok[1], ok[2], ok[4], ok[3])
         IN  /\ whtab' = r.whtab
             /\ pc' = IF r.rst = SUCCESS \/ r.whtab = whtab THEN "engine"
                      ELSE "broken"
    /\ UNCHANGED << text, pos, state, wbuf, vec, i, rst, nAdded, report,
                    stored, heap >>

EngReport ==
    /\ pc = "engine"
    /\ i = WordBufferVector_get_size(vec)
    /\ report' = WordHashTable_count_print(whtab)
    /\ pc' = "reported"
    /\ UNCHANGED << text, pos, state, wbuf, vec, i, rst, whtab, nAdded,
                    stored, heap >>

NextEngine ==
    \/ EngAddWord
    \/ EngPoolExpand
    \/ EngExpand
    \/ EngReport

SpecEngine == InitEngine /\ [][NextEngine]_vars

(***************************************************************************)
(* The loop of main on its own: the tokens of a list are fed to a table    *)
(* created with any small capacity, not the one main derives from the      *)
(* number of tokens.  A sequential program that has not returned always   *)
(* goes on to its next statement, hence the fairness condition on pc.      *)
(***************************************************************************)
\* a word of one character, a word that fills the pool of a table of
\* capacity 1, and a word of more than twice that pool
LoopWords ==
    { T(<< "a" >>), T(<< "h", "e", "l", "l", "o" >>),
      T(<< "a", "b", "c", "d", "e", "f", "g", "h", "i", "j", "k", "l",
           "m" >>) }

LoopLists ==
    { VecOf(ws) : ws \in UNION { [1..n -> LoopWords] : n \in 1..MaxLoopWords } }

InitLoop ==
    /\ text = << >>
    /\ pos = 0
    /\ state = BETWEEN_WORDS
    /\ wbuf = NullBuffer
    /\ vec \in LoopLists
    /\ pc = "add_word"
    /\ i = 0
    /\ rst = SUCCESS
    /\ \E c \in {1, 2, 4} : \E base \in Bases :
           whtab = WordHashTable_create(c, base)
    /\ nAdded = 0
    /\ report = << >>
    /\ stored = { }
    /\ heap = VecBlocks(vec) \cup TableBlocks

NextLoop ==
    \/ AddWord
    \/ PoolExpand
    \/ NoResize
    \/ Resize
    \/ CountPrint

LoopPcs ==
    { "add_word", "pool_expand", "size_check", "print", "exit_success",
      "exit_failure" }

\* main has not returned and control moves on
Proceeds ==
    /\ pc \in { "add_word", "pool_expand", "size_check", "print" }
    /\ pc' \in LoopPcs

SpecLoop == InitLoop /\ [][NextLoop]_vars /\ WF_pc(Proceeds)

(***************************************************************************)
(* The pool on its own: a client that asks for blocks of any small size,   *)
(* fills each block it gets, and expands the pool whenever it likes.       *)
(* whtab holds only the pool; i is the size last asked for, rst the result *)
(* of the last call, nAdded the number of blocks handed out and stored the *)
(* pairs (offset, bytes written) of those blocks.                          *)
(***************************************************************************)
PoolCapacities == { 1, 4, 6 }

InitPool ==
    /\ text = << >>
    /\ pos = 0
    /\ state = BETWEEN_WORDS
    /\ wbuf = NullBuffer
    /\ vec = WordBufferVector_create(INITIAL_WORD_VECTOR_LENGTH)
    /\ pc = "pool"
    /\ i = 0
    /\ rst = SUCCESS
    /\ \E c \in PoolCapacities : \E base \in Bases :
           whtab = [NullTable EXCEPT !.stringsPool = MemoryPool_init(c, base)]
    /\ nAdded = 0
    /\ report = << >>
    /\ stored = { }
    /\ heap = { << "memSpace", 0 >> }

\* MemoryPool_alloc_block, and the memcpy of its caller into the block; a
\* NULL result is reported as add_word reports it
PoolAllocBlock ==
    /\ pc = "pool"
    /\ nAdded < MaxBlocks
    /\ \E n \in 0..MaxBlock :
         LET r == MemoryPool_alloc_block(whtab.stringsPool, n)
             block == [k \in 1..n |-> 97 + nAdded]
         IN  /\ i' = n
             /\ IF r.ptr = NULL
                THEN /\ rst' = DATA_STRUCT_FULL
                     /\ whtab' = [whtab EXCEPT !.stringsPool = r.memp]
                     /\ UNCHANGED << nAdded, stored >>
                ELSE /\ rst' = SUCCESS
                     /\ whtab' = [whtab EXCEPT !.stringsPool =
                                     WriteBlock(r.memp, r.ptr, block)]
                     /\ nAdded' = nAdded + 1
                     /\ stored' = stored \cup
                                     { << r.ptr - r.memp.memSpace, block >> }
    /\ UNCHANGED << text, pos, state, wbuf, vec, pc, report, heap >>

\* MemoryPool_expand
PoolGrow ==
    /\ pc = "pool"
    /\ 2 * whtab.stringsPool.capacity <= MaxPoolCapacity
    /\ \E o \in ReallocOutcomes :
         LET r == MemoryPool_expand(whtab.stringsPool, o[2], o[1])
         IN  /\ whtab' = [whtab EXCEPT !.stringsPool = r.memp]
             /\ rst' = r.rst
    /\ UNCHANGED << text, pos, state, wbuf, vec, pc, i, nAdded, report,
                    stored, heap >>

NextPool ==
    \/ PoolAllocBlock
    \/ PoolGrow

SpecPool == InitPool /\ [][NextPool]_vars

(***************************************************************************)
(* The token buffer and the token list on their own: a client that pushes  *)
(* characters, backspaces and clears the buffer in any order, and pushes   *)
(* the buffer, whatever it holds, to a list created small enough to be     *)
(* doubled.  rst is the result of the last call that returns one.          *)
(***************************************************************************)
BufChars == { 97, 98 }
BufCapacities == { 2, 3 }
ListCapacities == { 1, 2 }

InitBuf ==
    /\ text = << >>
    /\ pos = 0
    /\ state = BETWEEN_WORDS
    /\ \E c \in BufCapacities : wbuf = WordBuffer_create(c)
    /\ \E c \in ListCapacities : vec = WordBufferVector_create(c)
    /\ pc = "buffer"
    /\ i = 0
    /\ rst = SUCCESS
    /\ whtab = NullTable
    /\ nAdded = 0
    /\ report = << >>
    /\ stored = { }
    /\ heap = VecBlocks(vec) \cup BufBlocks

\* WordBuffer_push_char
BufPushChar ==
    /\ pc = "buffer"
    /\ wbuf.curPosition < MaxBufLen
    /\ \E c \in BufChars : \E ok \in BOOLEAN :
         LET r == WordBuffer_push_char(wbuf, c, ok)
         IN  /\ wbuf' = r.wbuf
             /\ rst' = r.rst
    /\ UNCHANGED << text, pos, state, vec, pc, i, whtab, nAdded, report,
                    stored, heap >>

\* WordBuffer_backspace
BufBackspace ==
    /\ pc = "buffer"
    /\ wbuf' = WordBuffer_backspace(wbuf)
    /\ UNCHANGED << text, pos, state, vec, pc, i, rst, whtab, nAdded, report,
                    stored, heap >>

\* WordBuffer_clear
BufClear ==
    /\ pc = "buffer"
    /\ wbuf' = WordBuffer_clear(wbuf)
    /\ UNCHANGED << text, pos, state, vec, pc, i, rst, whtab, nAdded, report,
                    stored, heap >>

\* WordBufferVector_push of the buffer as it is
VecPush ==
    /\ pc = "buffer"
    /\ vec.curPosition < MaxListLen
    /\ \E okGrow \in BOOLEAN : \E okInit \in BOOLEAN :
         LET r == WordBufferVector_push(vec, wbuf, okGrow, okInit)
         IN  /\ vec' = r.vec
             /\ rst' = r.rst
             /\ heap' = VecBlocks(r.vec) \cup BufBlocks
    /\ UNCHANGED << text, pos, state, wbuf, pc, i, whtab, nAdded, report,
                    stored >>

NextBuf ==
    \/ BufPushChar
    \/ BufBackspace
    \/ BufClear
    \/ VecPush

SpecBuf == InitBuf /\ [][NextBuf]_vars

(***************************************************************************)
(* Properties.                                                             *)
(***************************************************************************)
\* character classes and orders as the specification words them
IsUpper(c) == c \in 65..90
IsAlnum(c) == c \in (48..57) \cup (65..90) \cup (97..122)
IsInWordSymbol(c) == c \in { 45, 39, 37, 44, 46, 64 }
Lower(c) == IF IsUpper(c) THEN c + 32 ELSE c

\* a <= b in byte-wise lexicographic order
RECURSIVE LexLeq(_, _)
LexLeq(a, b) ==
    IF a = << >> THEN TRUE
    ELSE IF b = << >> THEN FALSE
    ELSE IF a[1] < b[1] THEN TRUE
    ELSE IF a[1] > b[1] THEN FALSE
    ELSE LexLeq(Tail(a), Tail(b))

LiveSlots(t) == { k \in DOMAIN t.entries : t.entries[k].count > 0 }

\* the sum of the counts of the slots k, k+1, ...
RECURSIVE SumCounts(_, _)
SumCounts(t, k) ==
    IF k \notin DOMAIN t.entries THEN 0
    ELSE t.entries[k].count + SumCounts(t, k + 1)

\* the sum of the counts of the lines j, j+1, ... of a report
RECURSIVE SumReport(_, _)
SumReport(r, j) == IF j > Len(r) THEN 0 ELSE r[j][2] + SumReport(r, j + 1)

\* the number of tokens of the token list equal to w
TokenCount(w) ==
    Cardinality({ k \in 1..vec.curPosition : Tokens(vec)[k] = w })

\* C1: counting correctness: when the driver has fed every token and printed
\* the report, every token word w has a line in the report and the count of
\* that line is the number of tokens equal to w.
C1_CountingCorrectness ==
    pc = "exit_success" =>
        \A k \in 1..vec.curPosition :
            \E j \in 1..Len(report) :
                report[j] = << Tokens(vec)[k], TokenCount(Tokens(vec)[k]) >>

\* C2: round trip: after k successful add_word calls, with pool and table
\* expansions in between in any order, the counts of the entries sum to k,
\* and the counts of the report sum to the number of tokens.
C2_RoundTrip ==
    /\ SumCounts(whtab, 0) = nAdded
    /\ pc = "reported" =>
           SumReport(report, 1) = WordBufferVector_get_size(vec)

C2_Witness ==
    /\ pc = "reported"
    /\ nAdded = 3
    /\ whtab.capacity >= 4
    /\ whtab.stringsPool.capacity = 24
    /\ \E k \in LiveSlots(whtab) : whtab.entries[k].count >= 2

\* C3: alphabetical invariant: the words read through consecutive positions
\* of the order array are in non-decreasing byte order, and so are the lines
\* of the report.
C3_Alphabetical ==
    /\ \A k \in 0..(whtab.size - 2) :
           LexLeq(EntryWord(whtab, whtab.alphOrderArray[k]),
                  EntryWord(whtab, whtab.alphOrderArray[k + 1]))
    /\ \A j \in 1..(Len(report) - 1) : LexLeq(report[j][1], report[j + 1][1])

\* three words, the first two fed in descending order, reported after a
\* table expansion
C3_Witness ==
    /\ pc = "reported"
    /\ Len(report) = 3
    /\ whtab.capacity >= 4
    /\ ~LexLeq(Tokens(vec)[1], Tokens(vec)[2])

\* the driver's loop for one token: add_word, the pool expanded and the call
\* repeated while it returns DATA_STRUCT_FULL
RECURSIVE feedWord(_, _)
feedWord(t, buf) ==
    LET r == WordHashTable_add_word(t, buf)
    IN  IF r.rst = DATA_STRUCT_FULL
        THEN feedWord(WordHashTable_MemoryPool_expand(
                          r.whtab, r.whtab.stringsPool.memSpace, TRUE).whtab,
                      buf)
        ELSE r.whtab

RECURSIVE feedFrom(_, _, _)
feedFrom(t, v, k) ==
    IF k >= WordBufferVector_get_size(v) THEN t
    ELSE feedFrom(feedWord(t, WordBufferVector_at(v, k)), v, k + 1)

\* a capacity at which n tokens never bring the table to 70%
NoResizeCapacity(n) == 2 * next_2power(n + 1)

\* the table the tokens of v are fed to when it never resizes
ReferenceTable(v) ==
    feedFrom(WordHashTable_create(
                 NoResizeCapacity(WordBufferVector_get_size(v)), 1000), v, 0)

\* C4: idempotent resize: a run in which the table was resized reports the
\* same (word, count) lines in the same order as feeding the same tokens to a
\* table that never resizes.
C4_IdempotentResize ==
    (pc = "exit_success"
       /\ whtab.capacity > wtabInitSize(WordBufferVector_get_size(vec)))
    => report = WordHashTable_count_print(ReferenceTable(vec))

\* C5: pool relocation safety: the pointer of every live entry lies in the
\* pool's current buffer, at the offset its block was allocated at, and the
\* bytes read through it are the word that was inserted and its terminator.
C5_PoolRelocationSafety ==
    \A s \in LiveSlots(whtab) :
        LET e   == whtab.entries[s]
            off == e.letters - whtab.stringsPool.memSpace
        IN  /\ off >= 0
            /\ off + e.length <= whtab.stringsPool.capacity
            /\ \E p \in stored :
                   /\ p[1] = off
                   /\ ReadBlock(whtab.stringsPool, e.letters, e.length)
                        = p[2] \o << 0 >>

\* two live entries in a pool that was moved, after a table expansion
C5_Witness ==
    /\ Cardinality(LiveSlots(whtab)) >= 2
    /\ whtab.stringsPool.memSpace # 1000
    /\ whtab.stringsPool.capacity = 24
    /\ whtab.capacity >= 4

\* get_input returned SUCCESS
Tokenized == pc = "create"

\* C6 as the specification states it: "a--b" is one token "a--b".
C6_OneToken ==
    (Tokenized /\ text = TextADashDashB) => Tokens(vec) = << TextADashDashB >>

\* C6: the input "a--b" produces the two tokens "a" and "b": the second of
\* two consecutive in-word symbols ends the word and the first is dropped.
C6_TwoTokens ==
    (Tokenized /\ text = TextADashDashB)
    => Tokens(vec) = << T(<< "a" >>), T(<< "b" >>) >>

C6_Witness == Tokenized /\ text = TextADashDashB

\* C7: in IN_WORD_AFTER_SYMBOL, on a non-alphanumeric character or on the end
\* of the stream, the word without its one trailing symbol is pushed as a
\* token and nothing else is; after a character the buffer is empty and the
\* state is BETWEEN_WORDS.  "end." gives "end", "a-- b" gives "a", "b".
C7_DropTrailingSymbol ==
    /\ [][(/\ pc = "get_input"
           /\ state = IN_WORD_AFTER_SYMBOL
           /\ (pos = Len(text) \/ ~IsAlnum(text[pos + 1]))
           /\ pc' \in { "get_input", "create" })
          => /\ Tokens(vec') =
                    Append(Tokens(vec),
                           SubSeq(Word(wbuf), 1, Len(Word(wbuf)) - 1))
             /\ IsInWordSymbol(Word(wbuf)[Len(Word(wbuf))])
             /\ pos < Len(text) =>
                    (state' = BETWEEN_WORDS /\ Word(wbuf') = << >>)]_vars
    /\ []((Tokenized /\ text = TextEndDot)
            => Tokens(vec) = << T(<< "e", "n", "d" >>) >>)
    /\ []((Tokenized /\ text = TextADashDashSpaceB)
            => Tokens(vec) = << T(<< "a" >>), T(<< "b" >>) >>)

C7_Witness ==
    /\ Tokenized
    /\ text = TextEndDot
    /\ state = IN_WORD_AFTER_SYMBOL

\* every in-word symbol of txt stands between two alphanumeric characters
Sandwiched(txt) ==
    \A p \in 1..Len(txt) :
        IsInWordSymbol(txt[p]) =>
            /\ 1 < p /\ p < Len(txt)
            /\ IsAlnum(txt[p - 1]) /\ IsAlnum(txt[p + 1])

\* the maximal runs of alphanumeric characters and in-word symbols of txt,
\* in lower case: cur is the run being read from position k on
RECURSIVE Runs(_, _, _)
Runs(txt, k, cur) ==
    IF k > Len(txt) THEN (IF cur = << >> THEN << >> ELSE << cur >>)
    ELSE IF IsAlnum(txt[k]) \/ IsInWordSymbol(txt[k])
    THEN Runs(txt, k + 1, Append(cur, Lower(txt[k])))
    ELSE (IF cur = << >> THEN << >> ELSE << cur >>) \o Runs(txt, k + 1, << >>)

\* C8: an in-word symbol between two alphanumeric characters stays in the
\* token and does not split it: when every in-word symbol of the input is
\* such, the tokens are the runs of characters between the other characters.
\* "it's" gives the one token "it's".
C8_SymbolKept ==
    /\ (Tokenized /\ Sandwiched(text)) => Tokens(vec) = Runs(text, 1, << >>)
    /\ (Tokenized /\ text = TextIts) => Tokens(vec) = << TextIts >>

C8_Witness == Tokenized /\ text = TextIts /\ Sandwiched(text)

\* C9: case folding: a letter is appended to the buffer in lower case, no
\* token has an uppercase letter, and "Hello HELLO hello" is reported as the
\* single line ("hello", 3).
C9_CaseFolding ==
    /\ [][(/\ pc = "get_input"
           /\ pos < Len(text)
           /\ IsAlnum(text[pos + 1])
           /\ pc' = "get_input")
          => Word(wbuf') = Append(Word(wbuf), Lower(text[pos + 1]))]_vars
    /\ [](\A k \in 1..vec.curPosition :
            \A j \in 1..Len(Tokens(vec)[k]) : ~IsUpper(Tokens(vec)[k][j]))
    /\ []((pc = "exit_success" /\ text = TextHello3)
            => report = << << T(<< "h", "e", "l", "l", "o" >>), 3 >> >>)

C9_Witness == pc = "exit_success" /\ text = TextHello3

\* C10: an input with no alphanumeric character produces no token: the state
\* stays BETWEEN_WORDS, the buffer and the token list stay empty and
\* get_input succeeds.
C10_NoTokens ==
    (\A p \in 1..Len(text) : ~IsAlnum(text[p]))
    => /\ pc \in { "get_input", "create" }
       /\ state = BETWEEN_WORDS
       /\ WordBufferVector_get_size(vec) = 0
       /\ Tokens(vec) = << >>
       /\ pc = "get_input" => Word(wbuf) = << >>

\* an input of in-word symbols and a space, read to its end
C10_Witness ==
    /\ Tokenized
    /\ Len(text) >= 3
    /\ \A p \in 1..Len(text) : ~IsAlnum(text[p])
    /\ \E p \in 1..Len(text) : IsInWordSymbol(text[p])
    /\ \E p \in 1..Len(text) : text[p] = 32

\* the word of a buffer without its last character
DropLast(w) == SubSeq(w, 1, Len(w) - 1)

\* a step of get_input that reads a character in state st and goes on
ReadsIn(st) ==
    /\ pc = "get_input"
    /\ pc' = "get_input"
    /\ pos < Len(text)
    /\ pos' = pos + 1
    /\ state = st

\* the character that step reads
NewChar == IF pos < Len(text) THEN text[pos + 1] ELSE 0

\* the character is appended (a letter in lower case) and the state is nxt
Appends(c, nxt) ==
    /\ Word(wbuf') = Append(Word(wbuf), Lower(c))
    /\ Tokens(vec') = Tokens(vec)
    /\ state' = nxt

\* the word w is pushed as a token, the buffer is emptied, the state is
\* BETWEEN_WORDS
Flushes(w) ==
    /\ Tokens(vec') = Append(Tokens(vec), w)
    /\ Word(wbuf') = << >>
    /\ state' = BETWEEN_WORDS

\* C11: the transition table: in every step of the reading loop the action
\* and the next state are those of the cell of the current state and of the
\* class of the character read.  BETWEEN_WORDS: a letter or number is
\* appended, then IN_WORD_AFTER_ALPHARITH; any other character is ignored.
\* IN_WORD_AFTER_ALPHARITH: a letter or number is appended, same state; an
\* in-word symbol is appended, then IN_WORD_AFTER_SYMBOL; another character
\* flushes, then BETWEEN_WORDS.  IN_WORD_AFTER_SYMBOL: a letter or number is
\* appended, then IN_WORD_AFTER_ALPHARITH; a character of the class other
\* drops the last character and flushes, then BETWEEN_WORDS.
C11_TransitionTable ==
    [][LET c == NewChar
       IN  /\ (ReadsIn(BETWEEN_WORDS) /\ IsAlnum(c))
                => Appends(c, IN_WORD_AFTER_ALPHARITH)
           /\ (ReadsIn(BETWEEN_WORDS) /\ ~IsAlnum(c))
                => /\ Word(wbuf') = Word(wbuf) /\ Word(wbuf) = << >>
                   /\ Tokens(vec') = Tokens(vec)
                   /\ state' = BETWEEN_WORDS
           /\ (ReadsIn(IN_WORD_AFTER_ALPHARITH) /\ IsAlnum(c))
                => Appends(c, IN_WORD_AFTER_ALPHARITH)
           /\ (ReadsIn(IN_WORD_AFTER_ALPHARITH) /\ IsInWordSymbol(c))
                => Appends(c, IN_WORD_AFTER_SYMBOL)
           /\ (ReadsIn(IN_WORD_AFTER_ALPHARITH)
                 /\ ~IsAlnum(c) /\ ~IsInWordSymbol(c))
                => Flushes(Word(wbuf))
           /\ (ReadsIn(IN_WORD_AFTER_SYMBOL) /\ IsAlnum(c))
                => Appends(c, IN_WORD_AFTER_ALPHARITH)
           /\ (ReadsIn(IN_WORD_AFTER_SYMBOL)
                 /\ ~IsAlnum(c) /\ ~IsInWordSymbol(c))
                => Flushes(DropLast(Word(wbuf)))]_vars

\* "B-" and a space were read: an append in each of the two in-word states,
\* then the drop of the symbol and the flush
C11_Witness ==
    /\ pc = "get_input"
    /\ pos = 3
    /\ SubSeq(text, 1, 3) = << 66, 45, 32 >>
    /\ state = BETWEEN_WORDS
    /\ Tokens(vec) = << << 98 >> >>

\* C12: at the end of the stream at most one token is pushed, chosen by the
\* state: in IN_WORD_AFTER_ALPHARITH the word of the buffer as it is, in
\* IN_WORD_AFTER_SYMBOL the word without its trailing symbol, in
\* BETWEEN_WORDS nothing.
C12_EndOfStream ==
    [][(pc = "get_input" /\ pos = Len(text) /\ pc' = "create")
       => /\ state = IN_WORD_AFTER_ALPHARITH
               => Tokens(vec') = Append(Tokens(vec), Word(wbuf))
          /\ state = IN_WORD_AFTER_SYMBOL
               => /\ Tokens(vec') = Append(Tokens(vec), DropLast(Word(wbuf)))
                  /\ IsInWordSymbol(Word(wbuf)[Len(Word(wbuf))])
          /\ state = BETWEEN_WORDS => Tokens(vec') = Tokens(vec)
          /\ Len(Tokens(vec')) <= Len(Tokens(vec)) + 1]_vars

\* a second token pushed at the end of the stream from a word that ends in
\* a letter or number
C12_Witness ==
    /\ Tokenized
    /\ state = IN_WORD_AFTER_ALPHARITH
    /\ Len(Tokens(vec)) = 2
    /\ Tokens(vec)[2] # << >>

\* the fields of the table but the entries
TableFrame(t) ==
    << t.size, t.capacity, t.alphOrderArray, t.pfstats, t.hstats,
       t.stringsPool.nextChar, t.stringsPool.capacity >>

\* C13: a call of add_word that returns DATA_STRUCT_FULL leaves the table as
\* it was: size, capacity, the count of every slot, the text, length and
\* displacement of every live entry, the order array, the slots of the
\* longest and of the most frequent word, the insertion and collision
\* totals, and the pool's next free offset and capacity.
C13_PoolFullFrame ==
    [][(pc = "engine" /\ i < WordBufferVector_get_size(vec)
          /\ rst # DATA_STRUCT_FULL /\ rst' = DATA_STRUCT_FULL)
       => /\ TableFrame(whtab') = TableFrame(whtab)
          /\ \A k \in DOMAIN whtab.entries :
                 whtab'.entries[k].count = whtab.entries[k].count
          /\ \A k \in LiveSlots(whtab) :
                 /\ EntryWord(whtab', k) = EntryWord(whtab, k)
                 /\ whtab'.entries[k].length = whtab.entries[k].length
                 /\ whtab'.entries[k].displacement
                      = whtab.entries[k].displacement]_vars

\* add_word has just returned DATA_STRUCT_FULL on a table with a live entry
C13_Witness ==
    /\ pc = "engine"
    /\ rst = DATA_STRUCT_FULL
    /\ whtab.size >= 1
    /\ WordHashTable_add_word(whtab, WordBufferVector_at(vec, i)).rst
         = DATA_STRUCT_FULL

\* C14: in a run of the driver, whenever add_word is called the table has an
\* empty slot (size < capacity) and the call does not return GEN_FAIL: the
\* probe sequence is never exhausted.
C14_NoExhaustion ==
    pc = "add_word"
    => /\ whtab.size < whtab.capacity
       /\ WordHashTable_add_word(whtab, WordBufferVector_at(vec, i)).rst
            # GEN_FAIL

\* five tokens, initial capacity 4: the fifth is added to a table of four
\* entries that was resized to capacity 8
C14_Witness ==
    /\ pc = "add_word"
    /\ wtabInitSize(WordBufferVector_get_size(vec)) = 4
    /\ i = 4
    /\ whtab.size = 4
    /\ whtab.capacity = 8

\* C15: the loop "add_word; on DATA_STRUCT_FULL expand the pool and call
\* again for the same token" ends: a call for token k is followed, with
\* token k still the current one, by a result other than DATA_STRUCT_FULL or
\* by the exit on a failed expansion.  Each expansion in the loop doubles
\* the pool's capacity and leaves its next free offset and the table's size
\* as they were, and a failed call allocates nothing.
C15_RetryTerminates ==
    /\ \A k \in 0..MaxLoopWords :
           (pc = "add_word" /\ i = k)
             ~> (i = k /\ pc \in { "size_check", "exit_failure" })
    /\ [][(pc = "pool_expand" /\ pc' = "add_word")
           => /\ whtab'.stringsPool.capacity = 2 * whtab.stringsPool.capacity
              /\ whtab'.stringsPool.nextChar = whtab.stringsPool.nextChar
              /\ whtab'.size = whtab.size
              /\ i' = i]_vars
    /\ [][(pc = "add_word" /\ pc' = "pool_expand")
           => /\ whtab'.stringsPool.nextChar = whtab.stringsPool.nextChar
              /\ whtab'.stringsPool.capacity = whtab.stringsPool.capacity
              /\ i' = i]_vars
    /\ [][(pc = "pool_expand" /\ pc' # "add_word") => pc' = "exit_failure"]_vars

\* the first token was stored after two expansions of the pool of a table
\* of capacity 1
C15_Witness ==
    /\ pc = "size_check"
    /\ i = 0
    /\ rst = SUCCESS
    /\ whtab.capacity = 1
    /\ whtab.size = 1
    /\ whtab.stringsPool.capacity = 24

\* the table is one that add_word and expand have left usable
Usable == pc \in { "engine", "reported" }

\* C16: in every state with size > 0 reached by add_word and expand, the slot
\* maxCountWordIndex holds a live entry whose count is at least the count of
\* every live entry.
C16_MaxCountSlot ==
    (Usable /\ whtab.size > 0)
    => LET m == whtab.pfstats.maxCountWordIndex
       IN  /\ m \in LiveSlots(whtab)
           /\ \A k \in LiveSlots(whtab) :
                  whtab.entries[m].count >= whtab.entries[k].count

\* main holds a table that every call so far has left usable
InLoop ==
    pc \in { "add_word", "pool_expand", "size_check", "print", "exit_success" }

\* C17: in every state with size > 0 reached by add_word and expand, the slot
\* maxLengthWordIndex holds a live entry whose length is at least the length
\* of every live entry.
C17_MaxLengthSlot ==
    (InLoop /\ whtab.size > 0)
    => LET m == whtab.pfstats.maxLengthWordIndex
       IN  /\ m \in LiveSlots(whtab)
           /\ \A k \in LiveSlots(whtab) :
                  whtab.entries[m].length >= whtab.entries[k].length

\* the (word, length, count) triples of the live entries
Triples(t) ==
    { << EntryWord(t, k), t.entries[k].length, t.entries[k].count >> :
        k \in LiveSlots(t) }

\* the words read through the order array
OrderWords(t) == [k \in 1..t.size |-> EntryWord(t, t.alphOrderArray[k - 1])]

\* C18: a successful expand doubles the capacity and leaves the size, the
\* (word, length, count) triples of the live entries and the sequence of
\* words read through alphOrderArray[0..size-1] as they were.
C18_ExpandFrame ==
    [][(pc = "engine" /\ pc' = "engine"
          /\ whtab'.capacity # whtab.capacity)
       => /\ whtab'.capacity = 2 * whtab.capacity
          /\ whtab'.size = whtab.size
          /\ Triples(whtab') = Triples(whtab)
          /\ OrderWords(whtab') = OrderWords(whtab)]_vars

\* two entries, one of count 2, in a table expanded to capacity 8 with its
\* entries moved
C18_Witness ==
    /\ pc = "engine"
    /\ whtab.capacity = 8
    /\ whtab.size = 2
    /\ nAdded = 3
    /\ whtab.hstats.totalInsertions >= 2 * whtab.size + 2

\* C19: after any sequence of add_word and expand, the first size positions
\* of the order array hold exactly the slots of the entries with count > 0:
\* every slot they hold is non-empty, none occurs twice, every non-empty slot
\* occurs; and size <= capacity.
C19_OrderArrayContents ==
    Usable
    => /\ whtab.size <= whtab.capacity
       /\ \A k \in 0..(whtab.size - 1) :
              whtab.alphOrderArray[k] \in LiveSlots(whtab)
       /\ \A j, k \in 0..(whtab.size - 1) :
              j # k => whtab.alphOrderArray[j] # whtab.alphOrderArray[k]
       /\ \A s \in LiveSlots(whtab) :
              \E k \in 0..(whtab.size - 1) : whtab.alphOrderArray[k] = s

\* three entries in a table expanded to capacity 8, where the order array
\* does not list the slots in increasing order
C19_Witness ==
    /\ pc = "engine"
    /\ whtab.capacity = 8
    /\ whtab.size = 3
    /\ whtab.alphOrderArray[0] > whtab.alphOrderArray[1]

\* n is a power of two, 1 included
RECURSIVE IsPowerOfTwo(_)
IsPowerOfTwo(n) ==
    IF n <= 1 THEN n = 1 ELSE n % 2 = 0 /\ IsPowerOfTwo(n \div 2)

\* C20: the capacity of the table is a power of two in every state of a run
\* that has a table, and where main computes the initial capacity, the value
\* it computes is a power of two for every number of tokens, 0 included.
C20_PowerOfTwoCapacity ==
    /\ whtab # NullTable => IsPowerOfTwo(whtab.capacity)
    /\ pc = "create"
         => \A n \in 0..MaxTokenCount : IsPowerOfTwo(wtabInitSize(n))

\* five tokens: the table was created with capacity 4 and resized twice
C20_Witness ==
    /\ pc = "exit_success"
    /\ wtabInitSize(WordBufferVector_get_size(vec)) = 4
    /\ whtab.capacity = 16

\* C21: MemoryPool_alloc_block(n) succeeds exactly when nextChar + n is
\* strictly below the capacity.  On success the block starts at the old
\* nextChar and nextChar advances by n; otherwise the call reports a full
\* pool and leaves nextChar, the capacity and the bytes as they were.
C21_AllocContract ==
    [][PoolAllocBlock =>
         LET memp == whtab.stringsPool
             after == whtab'.stringsPool
             n == i'
         IN  /\ (rst' = SUCCESS) <=> (memp.nextChar + n < memp.capacity)
             /\ rst' = SUCCESS =>
                   /\ after.nextChar = memp.nextChar + n
                   /\ after.capacity = memp.capacity
                   /\ after.memSpace = memp.memSpace
                   /\ \E b \in stored' :
                         b[1] = memp.nextChar /\ Len(b[2]) = n
             /\ rst' # SUCCESS =>
                   /\ rst' = DATA_STRUCT_FULL
                   /\ after = memp
                   /\ stored' = stored]_vars

\* a block that would end exactly at the last byte of a pool in use was
\* refused
C21_Witness ==
    /\ pc = "pool"
    /\ rst = DATA_STRUCT_FULL
    /\ nAdded >= 1
    /\ whtab.stringsPool.nextChar > 0
    /\ whtab.stringsPool.nextChar + i = whtab.stringsPool.capacity

\* C22: the blocks handed out by one pool, whatever allocations and
\* expansions came in between, are pairwise disjoint as ranges of offsets
\* and each lies inside [0, capacity).
C22_DisjointRanges ==
    pc = "pool" =>
      /\ \A b \in stored :
           b[1] >= 0 /\ b[1] + Len(b[2]) <= whtab.stringsPool.capacity
      /\ \A a \in stored : \A b \in stored :
           a # b => \/ a[1] + Len(a[2]) <= b[1]
                    \/ b[1] + Len(b[2]) <= a[1]

\* what C22 gives the table: the blocks of the live entries (length bytes,
\* the terminator included) are pairwise disjoint and inside the pool
LiveTextsDisjoint ==
    (pc \in { "engine", "reported" } \/ InLoop) =>
      LET t == whtab
          lo(k) == t.entries[k].letters - t.stringsPool.memSpace
          hi(k) == lo(k) + t.entries[k].length
      IN  /\ \A k \in LiveSlots(t) :
               lo(k) >= 0 /\ hi(k) <= t.stringsPool.capacity
          /\ \A k \in LiveSlots(t) : \A m \in LiveSlots(t) :
               k # m => hi(k) <= lo(m) \/ hi(m) <= lo(k)

\* three blocks were handed out with an expansion to another address in
\* between
C22_Witness ==
    /\ pc = "pool"
    /\ nAdded = 3
    /\ Cardinality(stored) = 3
    /\ \A b \in stored : Len(b[2]) >= 1
    /\ whtab.stringsPool.capacity = 12
    /\ whtab.stringsPool.memSpace = 2000
    /\ whtab.stringsPool.nextChar > 6

\* C23: when main returns, after a failure as after the report, every block
\* it or the functions it called had allocated has been freed.
C23_NoLeak == pc \in { "exit_failure", "exit_success" } => heap = { }

\* C24: after a successful expand of a table that is not empty, the slots
\* maxLengthWordIndex and maxCountWordIndex hold the words they held before
\* it.
C24_ExtremesFollow ==
    [][(pc = "engine" /\ pc' = "engine" /\ whtab.size > 0
          /\ whtab'.capacity # whtab.capacity)
       => /\ EntryWord(whtab', whtab'.pfstats.maxLengthWordIndex)
               = EntryWord(whtab, whtab.pfstats.maxLengthWordIndex)
          /\ EntryWord(whtab', whtab'.pfstats.maxCountWordIndex)
               = EntryWord(whtab, whtab.pfstats.maxCountWordIndex)]_vars

\* the slots in the order the specification gives for the probe: ideal,
\* ideal+1, ideal-1, ideal+2, ideal-2, ..., those outside 0..capacity-1
\* left out
RECURSIVE ProbeFrom(_, _, _)
ProbeFrom(ideal, capacity, d) ==
    IF ideal + d >= capacity /\ ideal - d < 0 THEN << >>
    ELSE (IF ideal + d < capacity THEN << ideal + d >> ELSE << >>)
         \o (IF d > 0 /\ ideal - d >= 0 THEN << ideal - d >> ELSE << >>)
         \o ProbeFrom(ideal, capacity, d + 1)

ProbeOrder(ideal, capacity) == ProbeFrom(ideal, capacity, 0)

\* hash(word) mod capacity, the hash taken over the word and its terminator
IdealSlot(w, capacity) == fnvhash(w \o << 0 >>, Len(w) + 1) % capacity

\* the cheap comparison of the specification between the entry in slot s
\* and the token w
CheapMatch(t, s, w) ==
    LET e == t.entries[s]
    IN  /\ e.count > 0
        /\ e.length = Len(w) + 1
        /\ e.displacement = s - IdealSlot(w, t.capacity)
        /\ PoolRead(t.stringsPool, e.letters) = w[1]
        /\ PoolRead(t.stringsPool, e.letters + e.length - 2) = w[Len(w)]

\* the positions of the probe order at which the probe for w ends: an empty
\* slot or a slot that passes the cheap comparison
Deciding(t, w) ==
    LET order == ProbeOrder(IdealSlot(w, t.capacity), t.capacity)
    IN  { k \in 1..Len(order) :
            t.entries[order[k]].count = 0 \/ CheapMatch(t, order[k], w) }

\* the token of the call of add_word that has just succeeded
AddedToken == Word(WordBufferVector_at(vec, i))

\* a step in which add_word succeeded, in the engine or in main
AddSucceeds ==
    \/ pc = "engine" /\ i' = i + 1
    \/ pc = "add_word" /\ pc' = "size_check"

\* a step in which expand succeeded, in the engine or in main
ExpandSucceeds ==
    /\ \/ pc = "engine" /\ pc' = "engine"
       \/ pc = "size_check" /\ pc' \in { "add_word", "print" }
    /\ whtab'.capacity # whtab.capacity

\* C25: add_word takes the first slot of the probe order that is empty or
\* passes the cheap comparison (equal length, equal signed displacement,
\* equal first and last character; no other character is looked at).  When
\* that slot is occupied the call adds exactly 1 to its count and succeeds;
\* when it is empty the token is not taken for any entry and a new entry is
\* made.
C25_CheapMatch ==
    [][AddSucceeds =>
         LET order == ProbeOrder(IdealSlot(AddedToken, whtab.capacity),
                                 whtab.capacity)
             ks == Deciding(whtab, AddedToken)
             first == CHOOSE k \in ks : \A j \in ks : k <= j
             s == order[first]
         IN  /\ ks # { }
             /\ rst' = SUCCESS
             /\ IF whtab.entries[s].count > 0
                THEN /\ whtab'.entries[s].count = whtab.entries[s].count + 1
                     /\ whtab'.size = whtab.size
                     /\ \A k \in DOMAIN whtab.entries :
                           whtab'.entries[k].count =
                             whtab.entries[k].count + (IF k = s THEN 1 ELSE 0)
                ELSE /\ whtab'.size = whtab.size + 1
                     /\ whtab'.entries[s].count = 1]_vars

\* "cut" was added to a table that held only "cat": the entry of "cat" has
\* count 2 and there is no entry for "cut"
C25_Witness ==
    /\ pc = "engine"
    /\ i = 2
    /\ Tokens(vec)[1] = T(<< "c", "a", "t" >>)
    /\ Tokens(vec)[2] = T(<< "c", "u", "t" >>)
    /\ whtab.size = 1
    /\ \E k \in LiveSlots(whtab) :
          EntryWord(whtab, k) = T(<< "c", "a", "t" >>)
          /\ whtab.entries[k].count = 2

\* the first slot of the probe order of w that is not in the set taken
FirstFree(w, capacity, taken) ==
    LET order == ProbeOrder(IdealSlot(w, capacity), capacity)
        ks == { k \in 1..Len(order) : order[k] \notin taken }
    IN  IF ks = { } THEN -1
        ELSE order[CHOOSE k \in ks : \A j \in ks : k <= j]

\* C26: a new entry made by add_word is in the first empty slot of the
\* probe order of its word, and migrate, taking the entries in the order of
\* the order array, puts each into the first slot of the probe order of its
\* word, for the new capacity, that no entry moved before it has taken.
C26_FirstEmptySlot ==
    /\ [][(AddSucceeds /\ whtab'.size = whtab.size + 1)
           => LET s == FirstFree(AddedToken, whtab.capacity,
                                 LiveSlots(whtab))
              IN  /\ s >= 0
                  /\ LiveSlots(whtab') = LiveSlots(whtab) \cup { s }
                  /\ EntryWord(whtab', s) = AddedToken]_vars
    /\ [][ExpandSucceeds
           => \A k \in 0..(whtab'.size - 1) :
                whtab'.alphOrderArray[k] =
                  FirstFree(EntryWord(whtab', whtab'.alphOrderArray[k]),
                            whtab'.capacity,
                            { whtab'.alphOrderArray[j] : j \in 0..(k - 1) })
          ]_vars

\* "cat" was put below its ideal slot, which "hello" had taken, and the
\* table was then expanded: at capacity 4 "cat", moved first, has the ideal
\* slot and "hello" the slot above it
C26_Witness ==
    /\ pc = "engine"
    /\ whtab.capacity = 4
    /\ whtab.size = 2
    /\ Tokens(vec)[1] = T(<< "h", "e", "l", "l", "o" >>)
    /\ whtab.hstats.totalInsertions = 4
    /\ \E k \in LiveSlots(whtab) :
          /\ EntryWord(whtab, k) = T(<< "h", "e", "l", "l", "o" >>)
          /\ whtab.entries[k].displacement = 1

\* C27: in every state reached by add_word and expand, the slot of each live
\* entry is the ideal slot of its word for the current capacity plus the
\* displacement it stores, which is negative for an entry below its ideal
\* slot.
C27_Displacement ==
    (Usable \/ InLoop)
    => \A s \in LiveSlots(whtab) :
         s = IdealSlot(EntryWord(whtab, s), whtab.capacity)
               + whtab.entries[s].displacement

\* an entry below its ideal slot, and, after an expansion, one above it
C27_Witness ==
    /\ pc = "engine"
    /\ \/ /\ whtab.capacity = 2
          /\ \E s \in LiveSlots(whtab) : whtab.entries[s].displacement = -1
       \/ /\ whtab.capacity = 4
          /\ whtab.hstats.totalInsertions > whtab.size
          /\ \E s \in LiveSlots(whtab) : whtab.entries[s].displacement = 1

\* the occupancy at which the driver is to expand the table
ResizeDue == whtab.size >= (whtab.capacity * 70) \div 100

\* C28: after a successful add_word main calls expand exactly when
\* size >= capacity * 70 / 100 (integer division), once, and then goes on to
\* the next token; so at the start of every add_word call
\* size * 100 < 70 * capacity.
C28_ResizeTrigger ==
    /\ [](pc = "add_word" => whtab.size * 100 < 70 * whtab.capacity)
    /\ [][pc = "size_check"
            => /\ ResizeDue
                  => \/ /\ whtab'.capacity = 2 * whtab.capacity
                        /\ i' = i + 1
                        /\ pc' \in { "add_word", "print" }
                     \/ pc' = "exit_failure"
               /\ ~ResizeDue
                  => /\ whtab' = whtab
                     /\ i' = i + 1
                     /\ pc' \in { "add_word", "print" }]_vars

\* the first token was added without a resize and the second with one
C28_Witness ==
    /\ pc = "add_word"
    /\ i = 2
    /\ whtab.capacity = 2 * wtabInitSize(WordBufferVector_get_size(vec))
    /\ whtab.size = 2
    /\ ~ResizeDue

\* the slots of the extremes of t hold live entries of the largest count and
\* of the largest length
ExtremesMaximal(t) ==
    /\ t.pfstats.maxCountWordIndex \in LiveSlots(t)
    /\ t.pfstats.maxLengthWordIndex \in LiveSlots(t)
    /\ \A k \in LiveSlots(t) :
          /\ t.entries[t.pfstats.maxCountWordIndex].count
                >= t.entries[k].count
          /\ t.entries[t.pfstats.maxLengthWordIndex].length
                >= t.entries[k].length

\* C29: a successful add_word, insert or increment, on a table whose slots
\* of the extremes hold entries of the largest count and the largest length
\* leaves a table of which the same is true; the first insert into an empty
\* table sets both slots to the new entry.
C29_AddKeepsExtremes ==
    [][AddSucceeds =>
         /\ (whtab.size > 0 /\ ExtremesMaximal(whtab))
               => ExtremesMaximal(whtab')
         /\ whtab.size = 0
               => /\ LiveSlots(whtab') =
                       { whtab'.pfstats.maxCountWordIndex }
                  /\ whtab'.pfstats.maxLengthWordIndex =
                       whtab'.pfstats.maxCountWordIndex
                  /\ EntryWord(whtab', whtab'.pfstats.maxCountWordIndex) =
                       AddedToken]_vars

\* "hello", "cat", "cat" were added with no expand in between: the slot of
\* the largest count has moved to "cat", the slot of the largest length is
\* still that of "hello"
C29_Witness ==
    /\ pc = "engine"
    /\ i = 3
    /\ whtab.size = 2
    /\ whtab.hstats.totalInsertions = 2
    /\ EntryWord(whtab, whtab.pfstats.maxCountWordIndex)
         = T(<< "c", "a", "t" >>)
    /\ whtab.entries[whtab.pfstats.maxCountWordIndex].count = 2
    /\ EntryWord(whtab, whtab.pfstats.maxLengthWordIndex)
         = T(<< "h", "e", "l", "l", "o" >>)

\* C30: when add_word counts the token on an existing entry, the table after
\* the call is the table before it with 1 added to the count of that entry
\* and the slot of the largest count either as it was or set to that entry:
\* size, the order array, totalInsertions, totalCollisions, the pool with its
\* nextChar and every other entry are unchanged.
C30_IncrementFrame ==
    [][(AddSucceeds /\ whtab'.size = whtab.size)
         => \E s \in LiveSlots(whtab) :
              /\ whtab'.pfstats.maxCountWordIndex
                    \in { whtab.pfstats.maxCountWordIndex, s }
              /\ whtab' =
                    [whtab EXCEPT
                       !.entries[s].count = @ + 1,
                       !.pfstats.maxCountWordIndex =
                           whtab'.pfstats.maxCountWordIndex]]_vars

\* the second "hello" was counted on the entry of "hello", next to an entry
\* of "cat", and nothing was inserted for it
C30_Witness ==
    /\ pc = "engine"
    /\ i = 3
    /\ Tokens(vec)[3] = T(<< "h", "e", "l", "l", "o" >>)
    /\ whtab.size = 2
    /\ whtab.hstats.totalInsertions = 2
    /\ \E k \in LiveSlots(whtab) :
          /\ EntryWord(whtab, k) = T(<< "h", "e", "l", "l", "o" >>)
          /\ whtab.entries[k].count = 2

\* a step in which expand was called and got as far as changing the table,
\* or was called by main
ExpandCalled ==
    \/ pc = "size_check" /\ ResizeDue
    \/ pc = "engine" /\ whtab'.capacity # whtab.capacity

\* the usage of the pool at which expand is to double it
PoolDue ==
    whtab.stringsPool.nextChar >= (whtab.stringsPool.capacity * 80) \div 100

\* C31: a successful expand doubles the pool, once, exactly when
\* nextChar >= capacity * 80 / 100 (integer division) held when it was called;
\* otherwise, and when the expand fails, the pool's capacity is unchanged.
\* nextChar is unchanged by every expand, and the entries are rehashed with
\* their texts read from the pool as expand left it.
C31_PoolDoubledWhenDue ==
    [][ExpandCalled =>
         /\ whtab'.stringsPool.nextChar = whtab.stringsPool.nextChar
         /\ whtab'.stringsPool.capacity =
               IF PoolDue /\ ExpandSucceeds
               THEN 2 * whtab.stringsPool.capacity
               ELSE whtab.stringsPool.capacity
         /\ ExpandSucceeds
               => \A k \in LiveSlots(whtab') :
                     /\ whtab'.entries[k].letters
                           >= whtab'.stringsPool.memSpace
                     /\ whtab'.entries[k].letters
                           < whtab'.stringsPool.memSpace
                               + whtab'.stringsPool.nextChar]_vars

\* the input "hello cat": the table of 2 slots and a pool of 12 bytes is
\* expanded after "hello" with 6 bytes used (pool kept) and after "cat" with
\* 10 bytes used (pool doubled); add_word never found the pool full
C31_Witness ==
    /\ pc = "print"
    /\ Tokens(vec) = << T(<< "h", "e", "l", "l", "o" >>),
                        T(<< "c", "a", "t" >>) >>
    /\ whtab.capacity = 8
    /\ whtab.stringsPool.capacity = 24
    /\ whtab.stringsPool.nextChar = 10

Abs(n) == IF n < 0 THEN -n ELSE n

\* the sum of the absolute displacements of the live entries in the slots
\* k, k+1, ...
RECURSIVE SumAbsDispl(_, _)
SumAbsDispl(t, k) ==
    IF k \notin DOMAIN t.entries THEN 0
    ELSE (IF t.entries[k].count > 0 THEN Abs(t.entries[k].displacement)
          ELSE 0) + SumAbsDispl(t, k + 1)

\* C32: totalInsertions and totalCollisions never decrease.  An insert by
\* add_word adds 1 and the absolute displacement of the new entry, an
\* increment adds nothing, and a successful expand adds 1 and the absolute
\* value of its new displacement for each live entry.
C32_StatsAccumulate ==
    [][/\ whtab'.hstats.totalInsertions >= whtab.hstats.totalInsertions
       /\ whtab'.hstats.totalCollisions >= whtab.hstats.totalCollisions
       /\ (AddSucceeds /\ whtab'.size = whtab.size + 1)
             => \E s \in LiveSlots(whtab') \ LiveSlots(whtab) :
                  /\ whtab'.hstats.totalInsertions =
                        whtab.hstats.totalInsertions + 1
                  /\ whtab'.hstats.totalCollisions =
                        whtab.hstats.totalCollisions
                          + Abs(whtab'.entries[s].displacement)
       /\ (AddSucceeds /\ whtab'.size = whtab.size)
             => whtab'.hstats = whtab.hstats
       /\ ExpandSucceeds
             => /\ whtab'.hstats.totalInsertions =
                      whtab.hstats.totalInsertions + whtab.size
                /\ whtab'.hstats.totalCollisions =
                      whtab.hstats.totalCollisions + SumAbsDispl(whtab', 0)
      ]_vars

\* an insert below the ideal slot, an increment and an expand have been
\* counted: "hello" and "cat" share the ideal slot at every capacity up to 4
C32_Witness ==
    /\ pc = "engine"
    /\ i = 3
    /\ whtab.capacity = 4
    /\ whtab.size = 2
    /\ whtab.hstats.totalInsertions = 4
    /\ whtab.hstats.totalCollisions = 2
    /\ \E s \in LiveSlots(whtab) : whtab.entries[s].count = 2

\* the smallest power of two that is at least n
CeilPowerOfTwo(n) ==
    CHOOSE c \in 1..(2 * n + 1) :
        /\ IsPowerOfTwo(c)
        /\ c >= n
        /\ \A d \in 1..(c - 1) : IsPowerOfTwo(d) => d < n

\* the capacity the bias rule gives for n tokens
BiasRule(n) ==
    LET c == CeilPowerOfTwo(n)
        f == c \div 2
    IN  IF n - f >= f \div 2 THEN c ELSE f

\* C33: for every token count n main computes the capacity of the bias rule:
\* with c the smallest power of two >= n (1 for n = 0) and f = c / 2, it is c
\* if n - f >= f / 2 and f otherwise.  The value is never 0, n - f is never
\* negative, and the table is created with that capacity.
C33_InitialCapacity ==
    /\ pc = "create"
         => \A n \in 0..MaxTokenCount :
               /\ next_2power(n) = CeilPowerOfTwo(n)
               /\ n >= next_2power(n) \div 2
               /\ wtabInitSize(n) = BiasRule(n)
               /\ wtabInitSize(n) > 0
    /\ (pc \in { "add_word", "print" } /\ i = 0 /\ nAdded = 0)
         => whtab.capacity = BiasRule(WordBufferVector_get_size(vec))

\* five tokens: c = 8, f = 4 and 5 - 4 < 2, so the table has 4 slots
C33_Witness ==
    /\ pc = "add_word"
    /\ i = 0
    /\ nAdded = 0
    /\ WordBufferVector_get_size(vec) = 5
    /\ whtab.capacity = 4

\* C34: nextChar <= capacity in every state of the pool, whatever blocks were
\* asked for and whenever it was expanded.  A successful expand doubles the
\* capacity and leaves nextChar and every byte below nextChar as it was; a
\* failed one leaves the pool as it was.
C34_PoolInvariant ==
    /\ [](pc = "pool"
            => whtab.stringsPool.nextChar <= whtab.stringsPool.capacity)
    /\ [][PoolGrow =>
            LET memp == whtab.stringsPool
                after == whtab'.stringsPool
            IN  IF rst' = SUCCESS
                THEN /\ after.capacity = 2 * memp.capacity
                     /\ after.nextChar = memp.nextChar
                     /\ \A k \in 0..(memp.nextChar - 1) :
                           after.bytes[k] = memp.bytes[k]
                     /\ \A b \in stored :
                           ReadBlock(after, after.memSpace + b[1], Len(b[2]))
                             = b[2]
                ELSE after = memp]_vars

\* a pool of 6 bytes was expanded to 12 at another address with two blocks
\* of 3 and 2 bytes in it
C34_Witness ==
    /\ pc = "pool"
    /\ rst = SUCCESS
    /\ whtab.stringsPool.capacity = 12
    /\ whtab.stringsPool.memSpace = 2000
    /\ whtab.stringsPool.nextChar = 5
    /\ stored = { << 0, << 97, 97, 97 >> >>, << 3, << 98, 98 >> >> }
    /\ i = 2

\* the characters of a buffer before its cursor
Content(b) == [k \in 1..b.curPosition |-> b.letters[k - 1]]

\* C35: after any sequence of push, backspace and clear the cursor is below
\* the capacity and the character at the cursor is the terminator.  A push
\* appends one character, doubling the capacity first exactly when
\* curPosition >= capacity - 1 (and changes nothing when that realloc
\* fails); backspace removes the last character, or nothing from an empty
\* buffer; clear empties the buffer; neither changes the capacity.
C35_BufferInvariant ==
    /\ [](pc = "buffer"
            => /\ wbuf.curPosition < wbuf.capacity
               /\ wbuf.letters[wbuf.curPosition] = 0
               /\ Word(wbuf) = Content(wbuf))
    /\ [][BufPushChar =>
            IF rst' = SUCCESS
            THEN /\ \E c \in BufChars :
                       Content(wbuf') = Append(Content(wbuf), c)
                 /\ wbuf'.capacity =
                       IF wbuf.curPosition >= wbuf.capacity - 1
                       THEN 2 * wbuf.capacity ELSE wbuf.capacity
            ELSE /\ wbuf' = wbuf
                 /\ wbuf.curPosition >= wbuf.capacity - 1]_vars
    /\ [][BufBackspace =>
            /\ wbuf'.capacity = wbuf.capacity
            /\ Content(wbuf') =
                  IF wbuf.curPosition = 0 THEN << >>
                  ELSE SubSeq(Content(wbuf), 1, wbuf.curPosition - 1)]_vars
    /\ [][BufClear =>
            /\ wbuf'.capacity = wbuf.capacity
            /\ wbuf'.curPosition = 0]_vars

\* a buffer of capacity 2 was doubled by its second character, held "ab"
\* and was cleared
C35_Witness ==
    /\ pc = "buffer"
    /\ wbuf.capacity = 4
    /\ wbuf.curPosition = 0
    /\ wbuf.letters[0] = 0
    /\ wbuf.letters[1] = 98
    /\ wbuf.letters[2] = 0

\* a step in which the buffer was pushed to the list and every allocation of
\* the push succeeded
PushAllocated ==
    /\ pc = "buffer"
    /\ vec.curPosition < MaxListLen
    /\ wbuf' = wbuf
    /\ vec' = WordBufferVector_push(vec, wbuf, TRUE, TRUE).vec
    /\ rst' = WordBufferVector_push(vec, wbuf, TRUE, TRUE).rst

\* C36: a push of a buffer that holds a token, with its allocations
\* succeeding, makes the buffer's content the new last token of the list, in
\* a slot of capacity length + 1, adds 1 to the size of the list and leaves
\* every token pushed before as it was, also when the array of the list is
\* doubled; the list is the sequence of the tokens pushed.  (A buffer that
\* holds nothing is refused and the list keeps its tokens.)
C36_PushAppends ==
    [][PushAllocated =>
         IF wbuf.curPosition > 0
         THEN /\ rst' = SUCCESS
              /\ vec'.curPosition = vec.curPosition + 1
              /\ vec'.buffers[vec.curPosition].capacity =
                    wbuf.curPosition + 1
              /\ vec'.buffers[vec.curPosition].curPosition =
                    wbuf.curPosition
              /\ Tokens(vec') = Append(Tokens(vec), Content(wbuf))
              /\ \A k \in 0..(vec.curPosition - 1) :
                    vec'.buffers[k] = vec.buffers[k]
              /\ vec'.capacity \in { vec.capacity, 2 * vec.capacity }
              /\ vec'.curPosition < vec'.capacity
         ELSE /\ rst' = GEN_FAIL
              /\ Tokens(vec') = Tokens(vec)]_vars

\* "a" and "ab" were pushed to a list whose array was doubled on the way
C36_Witness ==
    /\ pc = "buffer"
    /\ vec.capacity = 4
    /\ vec.curPosition = 2
    /\ Tokens(vec) = << << 97 >>, << 97, 98 >> >>
    /\ vec.buffers[0].capacity = 2
    /\ vec.buffers[1].capacity = 3

\* C37: after any sequence of add_word and expand no two live entries hold
\* the same word: the probe for the word of a live entry comes to a slot that
\* passes the comparison, the word's own at the latest, before it comes to an
\* empty slot.  Hence the words of the report are strictly increasing.
C37_NoWordTwice ==
    Usable
    => /\ \A k \in LiveSlots(whtab) : \A m \in LiveSlots(whtab) :
             k # m => EntryWord(whtab, k) # EntryWord(whtab, m)
       /\ \A s \in LiveSlots(whtab) :
             LET w == EntryWord(whtab, s)
                 order == ProbeOrder(IdealSlot(w, whtab.capacity),
                                     whtab.capacity)
                 ks == Deciding(whtab, w)
                 first == CHOOSE k \in ks : \A j \in ks : k <= j
                 own == CHOOSE k \in 1..Len(order) : order[k] = s
             IN  /\ ks # { }
                 /\ first <= own
                 /\ whtab.entries[order[first]].count > 0
       /\ \A j \in 1..(Len(report) - 1) :
             /\ LexLeq(report[j][1], report[j + 1][1])
             /\ report[j][1] # report[j + 1][1]

\* "cat" was added before and after the expansions that moved its entry
\* away from its ideal slot, next to "hello", and is reported once
C37_Witness ==
    /\ pc = "reported"
    /\ Len(report) = 2
    /\ whtab.capacity = 4
    /\ whtab.hstats.totalInsertions > whtab.size
    /\ \E s \in LiveSlots(whtab) :
          /\ EntryWord(whtab, s) = T(<< "c", "a", "t" >>)
          /\ whtab.entries[s].displacement # 0
          /\ whtab.entries[s].count = 2

IsLowerOrDigit(c) == c \in (48..57) \cup (97..122)

\* C39: every token in the token list, at every moment of the reading and
\* for every input, is non-empty, starts and ends with a lowercase letter or
\* a digit, consists of lowercase letters, digits and in-word symbols only
\* and has no two adjacent in-word symbols; its slot holds at least one
\* character before the terminator, so the push was given a non-empty
\* buffer and add_word's letters[curPosition - 1] is a character of the
\* token.
C39_TokenShape ==
    \A k \in 0..(vec.curPosition - 1) :
        LET b == vec.buffers[k]
            w == Word(b)
        IN  /\ b.curPosition >= 1
            /\ Len(w) = b.curPosition
            /\ IsLowerOrDigit(w[1])
            /\ IsLowerOrDigit(w[Len(w)])
            /\ \A j \in 1..Len(w) :
                  IsLowerOrDigit(w[j]) \/ IsInWordSymbol(w[j])
            /\ \A j \in 1..(Len(w) - 1) :
                  ~(IsInWordSymbol(w[j]) /\ IsInWordSymbol(w[j + 1]))

\* the input "B-.1" gave the tokens "b" and "1": the symbol before the
\* second symbol was dropped and the letter was folded
C39_Witness ==
    /\ pc = "create"
    /\ text = << 66, 45, 46, 49 >>
    /\ Tokens(vec) = << << 98 >>, << 49 >> >>

====
